---------------------------- MODULE Spec2Model ----------------------------
(***************************************************************************)
(* State-machine model of the collaborative sequence                       *)
(* (packages/runtime/sequence/src/sequence.ts, SharedSegmentSequence) and  *)
(* of the delta queue proxy                                                *)
(* (packages/loader/container-loader/src/deltaManagerProxy.ts).            *)
(***************************************************************************)
EXTENDS Integers, Sequences, FiniteSets, TLC

(***************************************************************************)
(* Bounds of the model.                                                    *)
(***************************************************************************)
\* number of proxy calls recorded in a run
MaxCalls == 4

\* replicas of the sequence (two clients of one document)
Replicas == {"A", "B"}

\* local edits made in a run, over all replicas
MaxOps == 3

\* property values an annotate may write (0 is null: the key is deleted)
MaxVal == 1
MaxDeliveries == 3
MaxConnects == 1

\* the "sequenceDelta" listeners that users of a sequence register
MaxListeners == 1

\* the ranges of a delta event that createOpsFromDelta is applied to
MaxRanges == 2

(***************************************************************************)
(* Program constants.                                                      *)
(***************************************************************************)
\* UnassignedSequenceNumber: the seq of a local edit not yet acknowledged
Unassigned == -1

\* the failure sentinel of resolveRemoteClientPosition
Sentinel == -1

\* "Do GC every once in a while": the trigger length of the history buffer
GCTrigger == 20

\* the property keys of a segment
Keys == {"k"}

\* the labels of interval collections
Labels == {"a", "b"}

\* null, written for a property that is now undefined (sequence.ts:60)
Null == 0

(***************************************************************************)
(* Ops (MergeTree.IMergeTreeOp) and sequenced messages.                    *)
(***************************************************************************)
\* a property set with no key
NoProps == [x \in {} |-> Null]

\* the JSON form of a segment (ISegment.toJSONObject): payload identity,
\* cached length and properties
SegSpec(id, len, props) == [id |-> id, len |-> len, props |-> props]

NoSeg == SegSpec(0, 0, NoProps)

\* MergeTree.createInsertOp(pos, segmentJSON)
createInsertOp(pos, seg) ==
    [type |-> "insert", pos1 |-> pos, pos2 |-> pos, seg |-> seg,
     props |-> NoProps, ops |-> << >>]

\* MergeTree.createRemoveRangeOp(start, end)
createRemoveRangeOp(start, end) ==
    [type |-> "remove", pos1 |-> start, pos2 |-> end, seg |-> NoSeg,
     props |-> NoProps, ops |-> << >>]

\* MergeTree.createAnnotateRangeOp(start, end, props, undefined)
createAnnotateRangeOp(start, end, props) ==
    [type |-> "annotate", pos1 |-> start, pos2 |-> end, seg |-> NoSeg,
     props |-> props, ops |-> << >>]

\* undefined where an op is expected: what removeRangeLocal returns for a
\* range it removes nothing of
UndefinedOp ==
    [type |-> "undefined", pos1 |-> 0, pos2 |-> 0, seg |-> NoSeg,
     props |-> NoProps, ops |-> << >>]

\* MergeTree.createGroupOp(...ops)
createGroupOp(ops) ==
    [type |-> "group", pos1 |-> 0, pos2 |-> 0, seg |-> NoSeg,
     props |-> NoProps, ops |-> ops]

\* MergeTree.matchProperties(a, b): the same keys with the same values
matchProperties(a, b) ==
    /\ DOMAIN a = DOMAIN b
    /\ \A k \in DOMAIN a : a[k] = b[k]

\* the property set {k: v}
Prop1(k, v) == [x \in {k} |-> v]

(***************************************************************************)
(* The segment store and the collaboration client (MergeTree.Client).      *)
(* A tree is the ordered list of its segments, tombstones included; every  *)
(* segment has length 1.                                                   *)
(*   id         payload identity                                           *)
(*   seq        sequence number of the insert, Unassigned while pending    *)
(*   client     the inserting client                                       *)
(*   removed    tombstoned                                                 *)
(*   remSeq     sequence number of the removal, Unassigned while pending   *)
(*   remClients the clients that removed it                                *)
(*   props      property bag: the defined keys and their values            *)
(*   pendAnn    per key, the local annotates not yet acknowledged          *)
(***************************************************************************)
Segment(id, seq, client, props) ==
    [id |-> id, seq |-> seq, client |-> client, removed |-> FALSE,
     remSeq |-> 0, remClients |-> {}, props |-> props, pendAnn |-> [k \in Keys |-> 0]]

\* a view of the tree: the state as of refSeq, as client sees it; local is
\* the view of the tree's own client, which sees every segment
Persp(refSeq, client, local) ==
    [refSeq |-> refSeq, client |-> client, local |-> local]

\* length of segment s in view p
NodeLength(s, p) ==
    IF p.local
    THEN IF s.removed THEN 0 ELSE 1
    ELSE LET inserted == s.client = p.client
                         \/ (s.seq # Unassigned /\ s.seq <= p.refSeq)
             gone == s.removed
                     /\ (p.client \in s.remClients
                         \/ (s.remSeq # Unassigned /\ s.remSeq <= p.refSeq))
         IN IF inserted /\ ~gone THEN 1 ELSE 0

\* position of the i-th segment of the tree in view p
PosOf(tree, i, p) ==
    Cardinality({j \in 1..(i - 1) : NodeLength(tree[j], p) = 1})

\* length of the tree in view p
TreeLength(tree, p) == PosOf(tree, Len(tree) + 1, p)

\* the live segments in order, with their properties: the visible content
Content(tree) ==
    LET live == SelectSeq(tree, LAMBDA s : ~s.removed)
    IN [i \in 1..Len(live) |-> [id |-> live[i].id, props |-> live[i].props]]

\* tie-break for an insert that meets a segment of length 0 at its position:
\* the new segment goes before it unless the segment is a pending local
\* insert (which will be sequenced later than the new one)
BreakTie(s, newSeq) ==
    LET big == 1000000
        n == IF newSeq = Unassigned THEN big ELSE newSeq
        o == IF s.seq = Unassigned THEN big - 1 ELSE s.seq
    IN n > o

\* the number of segments the new segment is placed after; -1 when pos is
\* beyond the end of the view
RECURSIVE FindInsert(_, _, _, _, _)
FindInsert(tree, i, pos, newSeq, p) ==
    IF i > Len(tree)
    THEN IF pos = 0 THEN Len(tree) ELSE -1
    ELSE LET l == NodeLength(tree[i], p)
         IN IF l > 0
            THEN IF pos < l THEN i - 1
                 ELSE FindInsert(tree, i + 1, pos - l, newSeq, p)
            ELSE IF pos = 0 /\ BreakTie(tree[i], newSeq) THEN i - 1
                 ELSE FindInsert(tree, i + 1, pos, newSeq, p)

\* the tree with segment s placed after its first k segments
InsertAfter(tree, k, s) ==
    SubSeq(tree, 1, k) \o <<s>> \o SubSeq(tree, k + 1, Len(tree))

\* getValidOpRange: a range an op may act on in view p
ValidRange(tree, start, end, p) ==
    /\ 0 <= start
    /\ start < end
    /\ end <= TreeLength(tree, p)

\* the indices of the segments that view p has in [start, end)
InRange(tree, start, end, p) ==
    {i \in 1..Len(tree) :
        /\ NodeLength(tree[i], p) = 1
        /\ PosOf(tree, i, p) >= start
        /\ PosOf(tree, i, p) < end}

\* the tree's own view
LocalView == Persp(0, "", TRUE)

\* one range of a delta event: the segment, its position in the local view
\* when the event fires, and the keys an annotate changed
DeltaRange(tree, i, keys) ==
    [position |-> PosOf(tree, i, LocalView),
     seg |-> SegSpec(tree[i].id, 1, tree[i].props),
     deltas |-> keys]

\* the ranges of the segments idx, in tree order
RECURSIVE RangesOf(_, _, _, _)
RangesOf(tree, i, idx, keysOf) ==
    IF i > Len(tree) THEN << >>
    ELSE (IF i \in idx THEN <<DeltaRange(tree, i, keysOf[i])>> ELSE << >>)
         \o RangesOf(tree, i + 1, idx, keysOf)

\* a delta event (SequenceDeltaEvent): the operation and its ranges
DeltaEvent(operation, ranges) == [deltaOperation |-> operation, ranges |-> ranges]

\* the result of applying an op: the tree, the delta events fired, and the
\* segment group the op acted on
Applied(tree, events, segs) == [tree |-> tree, events |-> events, segs |-> segs]

\* a segment tombstoned by client at seq; a sequenced removal overrides a
\* pending local one, and an earlier sequenced removal is kept
MarkRemoved(s, seq, client) ==
    IF ~s.removed
    THEN [s EXCEPT !.removed = TRUE, !.remSeq = seq, !.remClients = {client}]
    ELSE IF s.remSeq = Unassigned
         THEN [s EXCEPT !.remSeq = seq, !.remClients = @ \cup {client}]
         ELSE [s EXCEPT !.remClients = @ \cup {client}]

\* the keys of props that an annotate at seq writes on segment s: a remote
\* annotate does not override a key with a pending local annotate
WrittenKeys(s, props, seq) ==
    {k \in DOMAIN props : seq = Unassigned \/ s.pendAnn[k] = 0}

\* segment s annotated with props at seq
Annotated(s, props, seq) ==
    LET w == WrittenKeys(s, props, seq)
        dom == (DOMAIN s.props \cup {k \in w : props[k] # Null})
                 \ {k \in w : props[k] = Null}
    IN [s EXCEPT
          !.props = [k \in dom |-> IF k \in w THEN props[k] ELSE s.props[k]],
          !.pendAnn = [k \in Keys |->
                         IF seq = Unassigned /\ k \in DOMAIN props
                         THEN s.pendAnn[k] + 1 ELSE s.pendAnn[k]]]

\* insert of op.seg at op.pos1 in view p, by client at seq
ApplyInsert(tree, op, seq, client, p) ==
    LET k == FindInsert(tree, 1, op.pos1, seq, p)
        t == InsertAfter(tree, k, Segment(op.seg.id, seq, client, op.seg.props))
    IN IF k < 0 THEN Applied(tree, << >>, {})
       ELSE Applied(t,
                    <<DeltaEvent("INSERT", <<DeltaRange(t, k + 1, {})>>)>>,
                    {op.seg.id})

\* removal of [op.pos1, op.pos2) of view p, by client at seq
ApplyRemove(tree, op, seq, client, p) ==
    LET idx == InRange(tree, op.pos1, op.pos2, p)
        fresh == {i \in idx : ~tree[i].removed}
        t == [i \in 1..Len(tree) |->
                IF i \in idx THEN MarkRemoved(tree[i], seq, client) ELSE tree[i]]
    IN IF ~ValidRange(tree, op.pos1, op.pos2, p) THEN Applied(tree, << >>, {})
       ELSE Applied(t,
                    <<DeltaEvent("REMOVE",
                                 RangesOf(t, 1, fresh, [i \in 1..Len(t) |-> {}]))>>,
                    {tree[i].id : i \in idx})

\* annotate of [op.pos1, op.pos2) of view p with op.props, at seq
ApplyAnnotate(tree, op, seq, p) ==
    LET idx == InRange(tree, op.pos1, op.pos2, p)
        t == [i \in 1..Len(tree) |->
                IF i \in idx THEN Annotated(tree[i], op.props, seq) ELSE tree[i]]
        keysOf == [i \in 1..Len(tree) |-> WrittenKeys(tree[i], op.props, seq)]
        hit == {i \in idx : keysOf[i] # {}}
    IN IF ~ValidRange(tree, op.pos1, op.pos2, p) THEN Applied(tree, << >>, {})
       ELSE Applied(t,
                    <<DeltaEvent("ANNOTATE", RangesOf(t, 1, hit, keysOf))>>,
                    {tree[i].id : i \in idx})

\* one op that is not a group
ApplyOne(tree, op, seq, client, p) ==
    CASE op.type = "insert" -> ApplyInsert(tree, op, seq, client, p)
      [] op.type = "remove" -> ApplyRemove(tree, op, seq, client, p)
      [] op.type = "annotate" -> ApplyAnnotate(tree, op, seq, p)
      [] OTHER -> Applied(tree, << >>, {})

\* the member ops of an op: those of a group, or the op itself
MemberOps(op) == IF op.type = "group" THEN op.ops ELSE <<op>>

\* applyRemoteOp: the member ops applied in order, each in the sender's view
RECURSIVE ApplyOps(_, _, _, _, _, _)
ApplyOps(tree, ops, i, seq, client, p) ==
    IF i > Len(ops) THEN Applied(tree, << >>, {})
    ELSE LET a == ApplyOne(tree, ops[i], seq, client, p)
             b == ApplyOps(a.tree, ops, i + 1, seq, client, p)
         IN Applied(b.tree, a.events \o b.events, a.segs \cup b.segs)

\* a pending segment group: the kind of the local op, the segments it acted
\* on and the keys it annotated
PendingGroup(type, segs, keys) == [type |-> type, segs |-> segs, keys |-> keys]

\* ackPendingSegment: the segments of group g get the sequence number seq
AckGroup(tree, g, seq) ==
    [i \in 1..Len(tree) |->
       LET s == tree[i]
       IN IF s.id \notin g.segs THEN s
          ELSE CASE g.type = "insert" ->
                      IF s.seq = Unassigned THEN [s EXCEPT !.seq = seq] ELSE s
                 [] g.type = "remove" ->
                      IF s.removed /\ s.remSeq = Unassigned
                      THEN [s EXCEPT !.remSeq = seq] ELSE s
                 [] g.type = "annotate" ->
                      [s EXCEPT !.pendAnn = [k \in Keys |->
                          IF k \in g.keys /\ s.pendAnn[k] > 0
                          THEN s.pendAnn[k] - 1 ELSE s.pendAnn[k]]]
                 [] OTHER -> s]

\* the first n pending groups acknowledged at seq
RECURSIVE AckGroups(_, _, _, _)
AckGroups(tree, groups, n, seq) ==
    IF n = 0 \/ groups = << >> THEN tree
    ELSE AckGroups(AckGroup(tree, Head(groups), seq), Tail(groups), n - 1, seq)

\* the segments that no view at or after minSeq can see any more are dropped
Zamboni(tree, min) ==
    SelectSeq(tree, LAMBDA s :
        ~(s.removed /\ s.remSeq # Unassigned /\ s.remSeq <= min))

Max(a, b) == IF a >= b THEN a ELSE b
Min(a, b) == IF a <= b THEN a ELSE b

\* the collaboration client: segment store, collaboration window, pending
\* segment groups and local identity
ClientState(tree, currentSeq, minSeq, pending, longClientId, collaborating) ==
    [tree |-> tree, currentSeq |-> currentSeq, minSeq |-> minSeq,
     pending |-> pending, longClientId |-> longClientId,
     collaborating |-> collaborating]

\* updateSeqNumbers(min, seq): the window advances, and the store collects
\* what the new minimum makes collectible
updateSeqNumbers(c, min, seq) ==
    LET m == Max(c.minSeq, min)
    IN [c EXCEPT !.currentSeq = seq, !.minSeq = m, !.tree = Zamboni(c.tree, m)]

\* Client.applyMsg(msg): the client's own message acknowledges its pending
\* groups, a remote message is applied in the sender's view; then the window
\* advances.  The result carries the delta events fired; ok is FALSE when
\* the message cannot be applied, and then nothing has changed.
applyMsg(c, m) ==
    IF m.corrupt THEN [ok |-> FALSE, client |-> c, events |-> << >>]
    ELSE IF m.clientId = c.longClientId
    THEN LET n == Len(MemberOps(m.contents))
             t == AckGroups(c.tree, c.pending, n, m.sequenceNumber)
             rest == SubSeq(c.pending, Min(n, Len(c.pending)) + 1, Len(c.pending))
         IN [ok |-> TRUE,
             client |-> updateSeqNumbers([c EXCEPT !.tree = t, !.pending = rest],
                                         m.minimumSequenceNumber, m.sequenceNumber),
             events |-> << >>]
    ELSE LET a == ApplyOps(c.tree, MemberOps(m.contents), 1, m.sequenceNumber,
                           m.clientId,
                           Persp(m.referenceSequenceNumber, m.clientId, FALSE))
         IN [ok |-> TRUE,
             client |-> updateSeqNumbers([c EXCEPT !.tree = a.tree],
                                         m.minimumSequenceNumber, m.sequenceNumber),
             events |-> a.events]

\* updateCollaboration(longClientId): the local identity is rebound
updateCollaboration(c, longClientId) == [c EXCEPT !.longClientId = longClientId]

\* whether segment s still needs the op of its pending group g: its insert
\* or removal is unacknowledged, or it is annotated and no remote removal
\* has overtaken it
NeedsOp(s, g) ==
    CASE g.type = "insert" -> s.seq = Unassigned
      [] g.type = "remove" -> s.removed /\ s.remSeq = Unassigned
      [] g.type = "annotate" -> ~(s.removed /\ s.remSeq # Unassigned)
      [] OTHER -> FALSE

RECURSIVE PendingUnits(_, _, _)
\* the pending edits from group k on, one per segment: the group's type and
\* keys and the segment's index in the tree, in the order of the groups
PendingUnits(tree, pending, k) ==
    IF k > Len(pending) THEN << >>
    ELSE LET g == pending[k]
             idxs == SelectSeq([i \in 1..Len(tree) |-> i],
                               LAMBDA i : tree[i].id \in g.segs /\ NeedsOp(tree[i], g))
         IN [j \in 1..Len(idxs) |-> [type |-> g.type, keys |-> g.keys, idx |-> idxs[j]]]
            \o PendingUnits(tree, pending, k + 1)

\* whether the segment at index i is in the sequence that pending edit j
\* applies to: inserted by an acknowledged op or an earlier pending edit,
\* and not removed by one
VisibleToUnit(tree, units, j, i) ==
    LET s == tree[i]
        earlier(type) == \E u \in 1..(j - 1) : units[u].type = type /\ units[u].idx = i
    IN /\ s.seq # Unassigned \/ earlier("insert")
       /\ ~s.removed \/ (s.remSeq = Unassigned /\ ~earlier("remove"))

\* the op that resubmits pending edit j, at the position its segment has
\* in the sequence the edit applies to
UnitOp(tree, units, j) ==
    LET u == units[j]
        s == tree[u.idx]
        pos == Cardinality({i \in 1..(u.idx - 1) : VisibleToUnit(tree, units, j, i)})
    IN CASE u.type = "insert" -> createInsertOp(pos, SegSpec(s.id, 1, NoProps))
         [] u.type = "remove" -> createRemoveRangeOp(pos, pos + 1)
         [] OTHER -> createAnnotateRangeOp(pos, pos + 1,
                        [k \in u.keys |-> IF k \in DOMAIN s.props THEN s.props[k]
                                                                  ELSE Null])

\* resetPendingSegmentsToOp(): all unacknowledged local edits as one Group
\* op, none when nothing is pending; the pending groups are rebuilt, one
\* for each op of the Group
resetPendingSegmentsToOp(c) ==
    LET units == PendingUnits(c.tree, c.pending, 1)
    IN [ops |-> IF c.pending = << >> THEN << >>
                ELSE <<createGroupOp([j \in 1..Len(units) |->
                                         UnitOp(c.tree, units, j)])>>,
        client |-> [c EXCEPT !.pending =
                      [j \in 1..Len(units) |->
                          PendingGroup(units[j].type, {c.tree[units[j].idx].id},
                                       units[j].keys)]]]

(***************************************************************************)
(* createOpsFromDelta (sequence.ts:51-95).                                 *)
(***************************************************************************)
\* the props an annotate range re-expresses: for each changed key the
\* segment's value now, null when the key is now undefined
RangeProps(r) ==
    [k \in r.deltas |-> IF k \in DOMAIN r.seg.props THEN r.seg.props[k] ELSE Null]

\* a mutant of ExtendLast: the op grows by one whatever the segment's length
ExtendLastByOne(ops, n) == [ops EXCEPT ![Len(ops)].pos2 = @ + 1]

\* ops with its last op's pos2 advanced by n
ExtendLast(ops, n) == [ops EXCEPT ![Len(ops)].pos2 = @ + n]

\* one range of the event added to the ops built so far
OpsAddRange(operation, ops, r) ==
    CASE operation = "ANNOTATE" ->
           IF /\ ops # << >>
              /\ ops[Len(ops)].pos2 = r.position
              /\ matchProperties(ops[Len(ops)].props, RangeProps(r))
           THEN ExtendLast(ops, r.seg.len)
           ELSE Append(ops, createAnnotateRangeOp(r.position,
                                                  r.position + r.seg.len,
                                                  RangeProps(r)))
      [] operation = "INSERT" ->
           Append(ops, createInsertOp(r.position, r.seg))
      [] operation = "REMOVE" ->
           IF ops # << >> /\ ops[Len(ops)].pos1 = r.position
           THEN ExtendLast(ops, r.seg.len)
           ELSE Append(ops, createRemoveRangeOp(r.position, r.position + r.seg.len))
      [] OTHER -> ops

RECURSIVE OpsFromRanges(_, _, _, _)
OpsFromRanges(operation, ranges, i, ops) ==
    IF i > Len(ranges) THEN ops
    ELSE OpsFromRanges(operation, ranges, i + 1, OpsAddRange(operation, ops, ranges[i]))

createOpsFromDelta(event) ==
    OpsFromRanges(event.deltaOperation, event.ranges, 1, << >>)

\* transfromOps called for each event in turn: ops.push(...createOpsFromDelta(event))
RECURSIVE TransformOps(_, _)
TransformOps(events, i) ==
    IF i > Len(events) THEN << >>
    ELSE createOpsFromDelta(events[i]) \o TransformOps(events, i + 1)

\* createOpsFromDelta as a function of its argument alone: an event, and
\* the ops built from it once the function has been applied
VARIABLE delta

\* no event is under re-expression
NoDelta == [event |-> DeltaEvent("NONE", << >>), ops |-> << >>, built |-> FALSE]

(***************************************************************************)
(* DeltaQueueProxy (deltaManagerProxy.ts:27-80).                           *)
(***************************************************************************)
VARIABLES
    systemPaused,   \* DeltaQueueProxy.systemPaused
    localPaused,    \* DeltaQueueProxy.localPaused
    queuePaused,    \* paused flag of the wrapped queue
    calls           \* the proxy calls made so far, each with the flags it left
                    \* and whether it invoked queue.resume()

proxyVars == <<systemPaused, localPaused, queuePaused, calls>>

\* what the operations of the sequence leave alone
restVars == <<proxyVars, delta>>

ProxyInit ==
    /\ systemPaused = FALSE
    /\ localPaused = FALSE
    /\ queuePaused = FALSE
    /\ calls = << >>

\* one entry of the call record
CallRec(name, sys, loc, resumed) ==
    [call |-> name, sys |-> sys, loc |-> loc, resumed |-> resumed]

\* the wrapped queue's pause(): the queue is paused from then on
QueuePause == queuePaused' = TRUE

\* the wrapped queue's resume()
QueueResume == queuePaused' = FALSE

\* a mutant of UpdateResumeCond: the flags are or-ed instead of and-ed
UpdateResumeEither(sys, loc) == ~sys \/ ~loc

\* a mutant of UpdateResumeCond: only the local flag is looked at
UpdateResumeLocalOnly(sys, loc) == ~loc

\* the condition of updateResume (deltaManagerProxy.ts:76), on the flags as
\* the caller has just written them
UpdateResumeCond(sys, loc) == ~sys /\ ~loc

\* updateResume(): queue.resume() only when neither caller holds a pause
updateResume(name, sys, loc) ==
    /\ IF UpdateResumeCond(sys, loc) THEN QueueResume ELSE UNCHANGED queuePaused
    /\ calls' = Append(calls, CallRec(name, sys, loc, UpdateResumeCond(sys, loc)))

systemPause ==
    /\ Len(calls) < MaxCalls
    /\ systemPaused' = TRUE
    /\ QueuePause
    /\ calls' = Append(calls, CallRec("systemPause", TRUE, localPaused, FALSE))
    /\ UNCHANGED localPaused

pause ==
    /\ Len(calls) < MaxCalls
    /\ localPaused' = TRUE
    /\ QueuePause
    /\ calls' = Append(calls, CallRec("pause", systemPaused, TRUE, FALSE))
    /\ UNCHANGED systemPaused

systemResume ==
    /\ Len(calls) < MaxCalls
    /\ systemPaused' = FALSE
    /\ updateResume("systemResume", FALSE, localPaused)
    /\ UNCHANGED localPaused

resume ==
    /\ Len(calls) < MaxCalls
    /\ localPaused' = FALSE
    /\ updateResume("resume", systemPaused, FALSE)
    /\ UNCHANGED systemPaused

(***************************************************************************)
(* SharedSegmentSequence (sequence.ts:43-614), one per replica, and the    *)
(* transport between the replicas.                                         *)
(***************************************************************************)
VARIABLES
    client,                 \* this.client: the collaboration client
    messagesSinceMSNChange, \* the history buffer
    deltaListeners,         \* number of "sequenceDelta" listeners registered
    mergeTreeDeltaCallback, \* whether client.mergeTreeDeltaCallback is set
    isLoaded,               \* this.isLoaded
    loadedDeferred,         \* state of this.loadedDeferred
    connected,              \* whether the replica is connected to the transport
    outbox,                 \* messages submitted while disconnected: held pending
    log,                    \* the sequenced messages, in order
    delivered,              \* how many messages of the log a replica has got
    lastRef,                \* sequencer: last reference number of each client
    runtimeClientId,        \* this.runtime.clientId
    edits,                  \* local edits that took effect so far
    recording,              \* whether the run records its last calls
    lastEdit,               \* the last local edit and what it returned
    lastProc,               \* the last processCore call and how it ended
    lastConnect,            \* the last onConnect call and what it submitted
    pc,                     \* where the replica's loadCore is
    settles,                \* calls of loadedDeferred.resolve and .reject
    loadFailed,             \* whether a step of the load has failed
    intervalMap,            \* intervalMapKernel: label -> collection
    valueChangedListeners,  \* listeners of the map's "valueChanged" event
    nextInst,               \* collections instantiated so far
    creates,                \* createValueType calls, by label
    lastGet,                \* the last getIntervalCollection call
    lastGC,                 \* the last pass of processMinSequenceNumberChanged
    lastSnap                \* the last snapshot call and how it ended

clientVars == <<client>>
seqVars == <<messagesSinceMSNChange, deltaListeners, mergeTreeDeltaCallback,
             isLoaded, loadedDeferred>>
netVars == <<connected, outbox, log, delivered, lastRef, runtimeClientId>>
ghostVars == <<edits, recording, lastEdit, lastProc, lastConnect>>
loadVars == <<pc, settles, loadFailed>>
mapVars == <<intervalMap, valueChangedListeners, nextInst, creates, lastGet>>
snapVars == <<lastGC, lastSnap>>

\* the last pass of processMinSequenceNumberChanged: none yet
NoGC == [min |-> 0, by |-> "none", at |-> 0]

\* a pass of processMinSequenceNumberChanged(min), run by processMergeTreeMsg
\* or by snapshotMergeTree when the sequence number at was the last one
GCPass(min, by, at) == [min |-> min, by |-> by, at |-> at]

\* the last snapshot call: none yet
NoSnap == [replica |-> "", deltaManager |-> FALSE, threw |-> FALSE, minSeq |-> 0]

\* the last local edit: none yet
NoEdit == [replica |-> "", kind |-> "none", empty |-> FALSE, returned |-> FALSE]

\* the last onConnect call: none yet
NoConnect == [replica |-> "", id |-> "", pendingGroups |-> 0, submitted |-> << >>]

\* a message as the transport sequences it
SequencedMessage(seq, refSeq, min, clientId, type, contents) ==
    [sequenceNumber |-> seq, referenceSequenceNumber |-> refSeq,
     minimumSequenceNumber |-> min, clientId |-> clientId, type |-> type,
     contents |-> contents, corrupt |-> FALSE]

\* no message
NoMessage == SequencedMessage(0, 0, 0, "", "none", createGroupOp(<< >>))

\* the last processCore call: none yet
NoProc == [replica |-> "", seq |-> 0, prev |-> 0, threw |-> FALSE, temp |-> FALSE,
           message |-> NoMessage, n |-> 0]

\* the last getIntervalCollection call: none yet
NoGet == [replica |-> "", label |-> "", had |-> FALSE, before |-> 0, returned |-> 0]

\* a label without a collection, and a collection just instantiated
NoCollection == [id |-> 0, attached |-> 0]
Collection(id) == [id |-> id, attached |-> 0]

\* the state of the replicas of an empty sequence: those of live were
\* created locally (initializeLocalCore has run loadFinished), the others
\* are constructed and will load; those of live that are not in registered
\* are not registered yet, and so not collaborating
SeqInitOf(live, registered) ==
    /\ client = [r \in Replicas |->
                    ClientState(<< >>, 0, 0, << >>, r, r \notin live \/ r \in registered)]
    /\ messagesSinceMSNChange = [r \in Replicas |-> << >>]
    /\ deltaListeners = [r \in Replicas |-> 0]
    /\ mergeTreeDeltaCallback = [r \in Replicas |-> FALSE]
    /\ isLoaded = [r \in Replicas |-> r \in live]
    /\ loadedDeferred = [r \in Replicas |->
                            IF r \in live THEN "resolved" ELSE "pending"]
    /\ pc = [r \in Replicas |-> IF r \in live THEN "local" ELSE "new"]
    /\ settles = [r \in Replicas |-> IF r \in live THEN 1 ELSE 0]
    /\ loadFailed = [r \in Replicas |-> FALSE]
    /\ intervalMap = [r \in Replicas |-> [l \in Labels |-> NoCollection]]
    /\ valueChangedListeners = [r \in Replicas |-> IF r \in live THEN 1 ELSE 0]
    /\ nextInst = [r \in Replicas |-> 0]
    /\ creates = [r \in Replicas |-> [l \in Labels |-> 0]]
    /\ lastGet = NoGet
    /\ lastGC = [r \in Replicas |-> NoGC]
    /\ connected = [r \in Replicas |-> TRUE]
    /\ outbox = [r \in Replicas |-> << >>]
    /\ log = << >>
    /\ delivered = [r \in Replicas |-> 0]
    /\ lastRef = [r \in Replicas |-> 0]
    /\ runtimeClientId = [r \in Replicas |-> r]
    /\ edits = 0
    /\ lastEdit = NoEdit
    /\ lastProc = NoProc
    /\ lastConnect = NoConnect
    /\ lastSnap = NoSnap

\* the state of the replicas of an empty sequence: those of live were
\* created locally and are registered and collaborating; the others are
\* constructed and will load
SeqInit(live) == SeqInitOf(live, live)

\* the record of a call, kept only by a run that records
Record(old, new) == IF recording THEN new ELSE old

\* a submitted message: the runtime stamps the sender's id and the last
\* sequence number the sender has processed
Envelope(clientId, refSeq, type, contents) ==
    [clientId |-> clientId, referenceSequenceNumber |-> refSeq,
     type |-> type, contents |-> contents]

\* the message submitLocalMessage submits for replica r
Stamped(r, type, contents) ==
    Envelope(runtimeClientId[r], delivered[r], type, contents)

\* the transport sequences message o of replica r: it gets the next sequence
\* number and the minimum of the clients' last reference numbers
Sequenced(net, r, o) ==
    LET refs == [net.lastRef EXCEPT ![r] = o.referenceSequenceNumber]
        msn == CHOOSE x \in {refs[q] : q \in Replicas} :
                  \A q \in Replicas : x <= refs[q]
    IN [log |-> Append(net.log,
                       SequencedMessage(Len(net.log) + 1, o.referenceSequenceNumber,
                                        msn, o.clientId, o.type, o.contents)),
        lastRef |-> refs]

RECURSIVE SequencedAll(_, _, _)
\* the transport sequences the messages os of replica r, in order
SequencedAll(net, r, os) ==
    IF os = << >> THEN net
    ELSE SequencedAll(Sequenced(net, r, Head(os)), r, Tail(os))

\* submitLocalMessage for each message of os: a connected replica's messages
\* reach the transport, which sequences them; a disconnected replica's
\* messages are held pending.  A replica acts on the others only through
\* the log, so sequencing a message as soon as it is sent shows every
\* replica the same histories as sequencing it later.
SubmitLocal(r, os) ==
    IF connected[r]
    THEN LET net == SequencedAll([log |-> log, lastRef |-> lastRef], r, os)
         IN /\ log' = net.log
            /\ lastRef' = net.lastRef
            /\ UNCHANGED outbox
    ELSE /\ outbox' = [outbox EXCEPT ![r] = @ \o os]
         /\ UNCHANGED <<log, lastRef>>

\* submitSequenceMessage(message) for every op of ops (none or one)
submitSequenceMessage(r, ops) ==
    SubmitLocal(r, [i \in 1..Len(ops) |-> Stamped(r, "op", ops[i])])

\* the sequence number a local edit gets: pending while collaborating
LocalSeq(c) == IF c.collaborating THEN Unassigned ELSE 0

\* the client after a local op: the tree changed, and while collaborating
\* the op's segment group is pending
AfterLocal(c, a, type, keys) ==
    [c EXCEPT !.tree = a.tree,
              !.pending = IF c.collaborating
                          THEN Append(@, PendingGroup(type, a.segs, keys)) ELSE @]

\* a mutant of SubmittedOps: a message is submitted whatever the client returns
SubmittedOpsAlways(ret, attempted) == <<attempted>>

\* "if (op) submitSequenceMessage(op)": what a local edit submits, given
\* what the client returned (nothing, or the op)
SubmittedOps(ret, attempted) == ret

\* removeRange(start, end) (sequence.ts:176-182)
removeRange(r, start, end) ==
    LET c == client[r]
        op == createRemoveRangeOp(start, end)
        valid == ValidRange(c.tree, start, end, LocalView)
        a == ApplyRemove(c.tree, op, LocalSeq(c), c.longClientId, LocalView)
        removeOp == IF valid THEN <<op>> ELSE << >>
    IN /\ edits < MaxOps
       /\ edits' = IF valid THEN edits + 1 ELSE edits
       /\ client' = [client EXCEPT ![r] =
                        IF valid THEN AfterLocal(c, a, "remove", {}) ELSE c]
       /\ submitSequenceMessage(r, SubmittedOps(removeOp, op))
       /\ lastEdit' = Record(lastEdit, [replica |-> r, kind |-> "remove", empty |-> (start = end),
                       returned |-> (removeOp # << >>)])
       /\ UNCHANGED <<seqVars, connected, delivered, runtimeClientId, recording,
                     lastProc, lastConnect, loadVars, mapVars, snapVars>>

\* replaceRange(start, end, segment) (sequence.ts:426-434): the segment is
\* inserted at end; when the insert gives an op, [start, end) is removed
\* and the Group of the insert op and of what removeRangeLocal returned is
\* submitted
replaceRange(r, start, end) ==
    LET c == client[r]
        insertOp == createInsertOp(end, SegSpec(edits + 1, 1, NoProps))
        a == ApplyInsert(c.tree, insertOp, LocalSeq(c), c.longClientId, LocalView)
        inserted == AfterLocal(c, a, "insert", {})
        removeOp == createRemoveRangeOp(start, end)
        valid == ValidRange(inserted.tree, start, end, LocalView)
        b == ApplyRemove(inserted.tree, removeOp, LocalSeq(c), c.longClientId, LocalView)
        remove == IF valid THEN removeOp ELSE UndefinedOp
    IN /\ edits < MaxOps
       /\ IF a.segs # {}
          THEN /\ edits' = edits + 1
               /\ client' = [client EXCEPT ![r] =
                                IF valid THEN AfterLocal(inserted, b, "remove", {})
                                ELSE inserted]
               /\ submitSequenceMessage(r, <<createGroupOp(<<insertOp, remove>>)>>)
          ELSE UNCHANGED <<edits, client, log, lastRef, outbox>>
       /\ lastEdit' = Record(lastEdit, [replica |-> r, kind |-> "replace",
                       empty |-> (start = end), returned |-> (a.segs # {}),
                       start |-> start, end |-> end])
       /\ UNCHANGED <<seqVars, connected, delivered, runtimeClientId, recording,
                     lastProc, lastConnect, loadVars, mapVars, snapVars>>

\* annotateRange(start, end, props) (sequence.ts:257-268)
annotateRange(r, start, end, props) ==
    LET c == client[r]
        op == createAnnotateRangeOp(start, end, props)
        valid == ValidRange(c.tree, start, end, LocalView)
        a == ApplyAnnotate(c.tree, op, LocalSeq(c), LocalView)
        annotateOp == IF valid THEN <<op>> ELSE << >>
    IN /\ edits < MaxOps
       /\ edits' = IF valid THEN edits + 1 ELSE edits
       /\ client' = [client EXCEPT ![r] =
                        IF valid THEN AfterLocal(c, a, "annotate", DOMAIN props)
                        ELSE c]
       /\ submitSequenceMessage(r, SubmittedOps(annotateOp, op))
       /\ lastEdit' = Record(lastEdit, [replica |-> r, kind |-> "annotate", empty |-> (start = end),
                       returned |-> (annotateOp # << >>)])
       /\ UNCHANGED <<seqVars, connected, delivered, runtimeClientId, recording,
                     lastProc, lastConnect, loadVars, mapVars, snapVars>>

\* insertAtReferencePosition(pos, segment) (sequence.ts:371-376); the
\* reference position is given by the position it resolves to
insertAtReferencePosition(r, pos) ==
    LET c == client[r]
        op == createInsertOp(pos, SegSpec(edits + 1, 1, NoProps))
        a == ApplyInsert(c.tree, op, LocalSeq(c), c.longClientId, LocalView)
        insertOp == IF a.segs # {} THEN <<op>> ELSE << >>
    IN /\ edits < MaxOps
       /\ edits' = IF a.segs # {} THEN edits + 1 ELSE edits
       /\ client' = [client EXCEPT ![r] =
                        IF a.segs # {} THEN AfterLocal(c, a, "insert", {}) ELSE c]
       /\ submitSequenceMessage(r, SubmittedOps(insertOp, op))
       /\ lastEdit' = Record(lastEdit, [replica |-> r, kind |-> "insert", empty |-> FALSE,
                       returned |-> (insertOp # << >>)])
       /\ UNCHANGED <<seqVars, connected, delivered, runtimeClientId, recording,
                     lastProc, lastConnect, loadVars, mapVars, snapVars>>

\* Client.resolveRemoteClientPosition(pos, refSeq, clientId): the local
\* position of the segment that the remote client had at pos as of refSeq
\* (the local length for the remote end); the sentinel when refSeq is older
\* than the minimum sequence number, or pos is no position of that view
ClientResolve(c, pos, refSeq, clientId) ==
    LET p == Persp(refSeq, clientId, FALSE)
        hits == {i \in 1..Len(c.tree) :
                    NodeLength(c.tree[i], p) = 1 /\ PosOf(c.tree, i, p) = pos}
    IN IF refSeq < c.minSeq THEN Sentinel
       ELSE IF hits # {}
            THEN PosOf(c.tree, CHOOSE i \in hits : TRUE, LocalView)
            ELSE IF pos = TreeLength(c.tree, p)
                 THEN TreeLength(c.tree, LocalView)
                 ELSE Sentinel

\* a mutant of resolveRemoteClientPosition: position and reference sequence
\* number are passed in each other's place
resolveSwapped(r, pos, refSeq, clientId) ==
    ClientResolve(client[r], refSeq, pos, clientId)

\* resolveRemoteClientPosition (sequence.ts:305-314)
resolveRemoteClientPosition(r, pos, refSeq, clientId) ==
    ClientResolve(client[r], pos, refSeq, clientId)

\* a mutant of processMinSequenceNumberChanged: a message whose sequence
\* number is minSeq is kept
processMinSequenceNumberChangedInclusive(buf, min) ==
    LET above == {i \in 1..Len(buf) : buf[i].sequenceNumber >= min}
        index == IF above = {} THEN Len(buf)
                 ELSE (CHOOSE i \in above : \A j \in above : i <= j) - 1
    IN IF index # 0 THEN SubSeq(buf, index + 1, Len(buf)) ELSE buf

\* processMinSequenceNumberChanged(minSeq) (sequence.ts:574-584): the buffer
\* without its leading messages up to the first one above minSeq
processMinSequenceNumberChanged(buf, min) ==
    LET above == {i \in 1..Len(buf) : buf[i].sequenceNumber > min}
        index == IF above = {} THEN Len(buf)
                 ELSE (CHOOSE i \in above : \A j \in above : i <= j) - 1
    IN IF index # 0 THEN SubSeq(buf, index + 1, Len(buf)) ELSE buf

\* a mutant of GCDue: the trigger waits for two more entries
GCDueLate(buf, m) ==
    /\ Len(buf) > GCTrigger + 2
    /\ buf[GCTrigger + 3].sequenceNumber < m.minimumSequenceNumber

\* a mutant of GCDue: the trigger looks one entry too early
GCDueEarly(buf, m) ==
    /\ Len(buf) >= GCTrigger
    /\ buf[GCTrigger].sequenceNumber < m.minimumSequenceNumber

\* "Do GC every once in a while" (sequence.ts:562-566)
GCDue(buf, m) ==
    /\ Len(buf) > GCTrigger
    /\ buf[GCTrigger + 1].sequenceNumber < m.minimumSequenceNumber

\* a mutant of Stash: the original message is stashed
StashOriginal(m, ops) == m

\* the message stashed for a message that needs transformation
\* (sequence.ts:548-549, 557)
Stash(m, ops) ==
    [m EXCEPT !.referenceSequenceNumber = m.sequenceNumber - 1,
              !.contents = IF Len(ops) # 1 THEN createGroupOp(ops) ELSE ops[1]]

\* a mutant of NeedsTransformation: every message is transformed
NeedsTransformationAlways(m) == TRUE

\* needsTransformation (sequence.ts:545)
NeedsTransformation(m) == m.referenceSequenceNumber # m.sequenceNumber - 1

\* a mutant of MsgApplied: a message that needs transformation is stashed
\* without being applied
MsgAppliedDirectOnly(c, m) ==
    IF m.referenceSequenceNumber # m.sequenceNumber - 1
    THEN [ok |-> TRUE, client |-> c, events |-> << >>]
    ELSE applyMsg(c, m)

\* this.client.applyMsg(message) (sequence.ts:553)
MsgApplied(c, m) == applyMsg(c, m)

\* a mutant of Pushed: the message goes to the front of the buffer
PushedFirst(buf, msg) == <<msg>> \o buf

\* this.messagesSinceMSNChange.push(stashMessage) (sequence.ts:560)
Pushed(buf, msg) == Append(buf, msg)

\* a mutant of Written: no copy is made, and the writes reach the message
\* that is applied
WrittenShared(m, ops) == [message |-> Stash(m, ops), stashMessage |-> Stash(m, ops)]

\* the two message objects of processMergeTreeMsg when the message needs
\* transformation, after its writes: stashMessage is a cloneDeep of message
\* (sequence.ts:548), so the writes of sequence.ts:549 and 557 reach the
\* copy alone
Written(m, ops) == [message |-> m, stashMessage |-> Stash(m, ops)]

\* the fields of a sequence that processMergeTreeMsg reads and writes
SeqState(r) ==
    [client |-> client[r], buf |-> messagesSinceMSNChange[r],
     listeners |-> deltaListeners[r], callback |-> mergeTreeDeltaCallback[r],
     gc |-> lastGC[r], threw |-> FALSE, message |-> NoMessage]

\* processMergeTreeMsg(rawMessage) (sequence.ts:535-568) on the fields st.
\* When applyMsg throws, the temporary listener stays registered and
\* nothing is stashed.  The field message is the message object that was
\* applied, as the call leaves it.
MergeTreeMsgProcessed(st, m) ==
    LET needs == NeedsTransformation(m)
        res == MsgApplied(st.client, m)
        ops == TransformOps(res.events, 1)
        stashMessage == IF needs THEN Written(m, ops).stashMessage ELSE m
        pushed == Pushed(st.buf, stashMessage)
    IN IF res.ok
       THEN [st EXCEPT
               !.client = res.client,
               !.buf = IF GCDue(pushed, m)
                       THEN processMinSequenceNumberChanged(pushed,
                                                            m.minimumSequenceNumber)
                       ELSE pushed,
               !.gc = IF GCDue(pushed, m)
                      THEN GCPass(m.minimumSequenceNumber, "message", m.sequenceNumber)
                      ELSE @,
               !.callback = IF needs THEN st.listeners > 0 ELSE @,
               !.message = IF needs THEN Written(m, ops).message ELSE m]
       ELSE [st EXCEPT
               !.listeners = IF needs THEN @ + 1 ELSE @,
               !.callback = IF needs THEN TRUE ELSE @,
               !.threw = TRUE,
               !.message = m]

\* processMergeTreeMsg(rawMessage) for replica r: st is what the call
\* leaves of the fields of the sequence
processMergeTreeMsg(r, st) ==
    /\ client' = [client EXCEPT ![r] = st.client]
    /\ messagesSinceMSNChange' = [messagesSinceMSNChange EXCEPT ![r] = st.buf]
    /\ deltaListeners' = [deltaListeners EXCEPT ![r] = st.listeners]
    /\ mergeTreeDeltaCallback' = [mergeTreeDeltaCallback EXCEPT ![r] = st.callback]
    /\ lastGC' = [lastGC EXCEPT ![r] = st.gc]

\* whether applying m to replica r throws
Throws(r, m) == ~MsgApplied(client[r], m).ok

\* IntervalCollection.attach(client, label)
attach(coll) == [coll EXCEPT !.attached = @ + 1]

\* a mutant of ValueChangedListener: the collection is attached whether or
\* not it is attached already
ValueChangedListenerAlways(coll) == attach(coll)

\* the "valueChanged" listener (sequence.ts:601-606) on the collection of
\* the changed key
ValueChangedListener(coll) == IF coll.attached = 0 THEN attach(coll) ELSE coll

RECURSIVE valueChanged(_, _, _)
\* the map emits "valueChanged" for key to its n listeners
valueChanged(map, key, n) ==
    IF n = 0 THEN map
    ELSE valueChanged([map EXCEPT ![key] = ValueChangedListener(@)], key, n - 1)

\* the op the map submits when a collection is created under label
MapCreateOp(label) == [type |-> "createValueType", key |-> label]

\* whether the interval map takes message m as its own
Handled(m) == m.type = "op" /\ m.contents.type = "createValueType"

\* intervalMapKernel.tryProcessMessage(message, local) for a message of the
\* map: the acknowledgement of a local create changes nothing; a remote
\* create instantiates the collection when the label has none, and the map
\* reports the key as changed
tryProcessMessage(r, m) ==
    LET key == m.contents.key
        local == m.clientId = runtimeClientId[r]
        has == intervalMap[r][key].id # 0
        map == IF has THEN intervalMap[r]
               ELSE [intervalMap[r] EXCEPT ![key] = Collection(nextInst[r] + 1)]
    IN IF local
       THEN UNCHANGED <<intervalMap, nextInst>>
       ELSE /\ intervalMap' = [intervalMap EXCEPT ![r] =
                                 valueChanged(map, key, valueChangedListeners[r])]
            /\ nextInst' = [nextInst EXCEPT ![r] = IF has THEN @ ELSE @ + 1]

\* processCore(message, local) (sequence.ts:478-487) for message m; the
\* record keeps the sequence number of the message applied before it,
\* whether the temporary listener was installed (sequence.ts:547-551), and
\* the message object as the call leaves it
processCoreOf(r, m) ==
    /\ \E st \in {IF Handled(m) THEN [SeqState(r) EXCEPT !.message = m]
                  ELSE MergeTreeMsgProcessed(SeqState(r), m)} :
          /\ IF Handled(m)
             THEN /\ tryProcessMessage(r, m)
                  /\ UNCHANGED <<client, messagesSinceMSNChange, deltaListeners,
                                 mergeTreeDeltaCallback, lastGC>>
             ELSE /\ processMergeTreeMsg(r, st)
                  /\ UNCHANGED <<intervalMap, nextInst>>
          /\ lastProc' = Record(lastProc, [replica |-> r, seq |-> m.sequenceNumber,
                          prev |-> client[r].currentSeq,
                          threw |-> st.threw,
                          temp |-> ~Handled(m) /\ NeedsTransformation(m),
                          message |-> st.message,
                          n |-> lastProc.n + 1])
    /\ UNCHANGED <<valueChangedListeners, creates, lastGet, loadVars, lastSnap>>

\* processCore for the next message of the log
processCore(r) ==
    /\ pc[r] \in {"local", "returned"}
    /\ delivered[r] < Len(log)
    /\ processCoreOf(r, log[delivered[r] + 1])
    /\ delivered' = [delivered EXCEPT ![r] = @ + 1]
    /\ UNCHANGED <<isLoaded, loadedDeferred, connected, outbox, log, lastRef,
                   runtimeClientId, edits, recording, lastEdit, lastConnect>>

\* on("sequenceDelta", listener) by a user of the sequence: the
\* "newListener" hook installs the client's delta callback
\* (sequence.ts:117-125)
on(r) ==
    /\ deltaListeners[r] < MaxListeners
    /\ deltaListeners' = [deltaListeners EXCEPT ![r] = @ + 1]
    /\ mergeTreeDeltaCallback' = [mergeTreeDeltaCallback EXCEPT ![r] = TRUE]
    /\ UNCHANGED <<client, messagesSinceMSNChange, isLoaded, loadedDeferred, netVars,
                   ghostVars, loadVars, mapVars, snapVars>>

\* removeListener("sequenceDelta", listener) by a user of the sequence: the
\* "removeListener" hook drops the callback with the last listener
\* (sequence.ts:136-142)
removeListener(r) ==
    /\ deltaListeners[r] > 0
    /\ deltaListeners' = [deltaListeners EXCEPT ![r] = @ - 1]
    /\ mergeTreeDeltaCallback' =
          [mergeTreeDeltaCallback EXCEPT ![r] = IF deltaListeners[r] = 1 THEN FALSE ELSE @]
    /\ UNCHANGED <<client, messagesSinceMSNChange, isLoaded, loadedDeferred, netVars,
                   ghostVars, loadVars, mapVars, snapVars>>

\* processCore for the next message of the log, a remote merge-tree message
\* whose application fires one delta event, when a listener of a user of
\* the sequence answers that event with an insert at the end of the
\* sequence.  The emit of the remote event (sequence.ts:121-123) calls the
\* user's listener before transfromOps, which was registered after it; the
\* insert inside the listener fires its own event, which reaches
\* transfromOps (sequence.ts:542-544) before the remote one does.  The
\* insert is submitted in the view that has the message being processed.
processCoreReentrant(r) ==
    /\ pc[r] \in {"local", "returned"}
    /\ delivered[r] < Len(log)
    /\ deltaListeners[r] > 0
    /\ edits < MaxOps
    /\ \E m \in {log[delivered[r] + 1]} :
          /\ ~Handled(m)
          /\ m.clientId # runtimeClientId[r]
          /\ \E res \in {MsgApplied(client[r], m)} :
                /\ res.ok
                /\ Len(res.events) = 1
                /\ \E op \in {createInsertOp(TreeLength(res.client.tree, LocalView),
                                             SegSpec(edits + 1, 1, NoProps))} :
                   \E a \in {ApplyInsert(res.client.tree, op, LocalSeq(res.client),
                                         res.client.longClientId, LocalView)} :
                   \E stashMessage \in {IF NeedsTransformation(m)
                                        THEN Written(m, TransformOps(a.events \o res.events,
                                                                     1)).stashMessage
                                        ELSE m} :
                   \E pushed \in {Pushed(messagesSinceMSNChange[r], stashMessage)} :
                      /\ a.segs # {}
                      /\ client' = [client EXCEPT ![r] =
                                       AfterLocal(res.client, a, "insert", {})]
                      /\ messagesSinceMSNChange' =
                            [messagesSinceMSNChange EXCEPT ![r] =
                                IF GCDue(pushed, m)
                                THEN processMinSequenceNumberChanged(
                                        pushed, m.minimumSequenceNumber)
                                ELSE pushed]
                      /\ lastGC' = [lastGC EXCEPT ![r] =
                                      IF GCDue(pushed, m)
                                      THEN GCPass(m.minimumSequenceNumber, "message",
                                                  m.sequenceNumber)
                                      ELSE @]
                      /\ SubmitLocal(r, <<Envelope(runtimeClientId[r], m.sequenceNumber,
                                                   "op", op)>>)
          /\ mergeTreeDeltaCallback' =
                [mergeTreeDeltaCallback EXCEPT ![r] =
                    IF NeedsTransformation(m) THEN TRUE ELSE @]
          /\ lastProc' = Record(lastProc, [replica |-> r, seq |-> m.sequenceNumber,
                          prev |-> client[r].currentSeq, threw |-> FALSE,
                          temp |-> NeedsTransformation(m), message |-> m,
                          n |-> lastProc.n + 1])
    /\ lastEdit' = Record(lastEdit, [replica |-> r, kind |-> "insert",
                    empty |-> FALSE, returned |-> TRUE])
    /\ delivered' = [delivered EXCEPT ![r] = @ + 1]
    /\ edits' = edits + 1
    /\ UNCHANGED <<deltaListeners, isLoaded, loadedDeferred, connected, runtimeClientId,
                   recording, lastConnect, loadVars, mapVars, lastSnap>>

\* processCore for a message the replica has got before: the transport
\* delivers it again, or delivers it after a later one
processCoreAgain(r) ==
    /\ lastProc.n < MaxDeliveries
    /\ \E i \in 1..delivered[r] : processCoreOf(r, log[i])
    /\ UNCHANGED <<isLoaded, loadedDeferred, netVars, edits, recording, lastEdit,
                   lastConnect>>

\* the connection of replica r is lost; every message r had submitted has
\* come back to it
onDisconnect(r) ==
    /\ connected[r]
    /\ pc[r] = "local"
    /\ Len(runtimeClientId[r]) <= MaxConnects
    /\ delivered[r] = Len(log)
    /\ connected' = [connected EXCEPT ![r] = FALSE]
    /\ UNCHANGED <<clientVars, seqVars, outbox, log, delivered, lastRef,
                   runtimeClientId, ghostVars, loadVars, mapVars, snapVars>>

\* onConnect(pending) (sequence.ts:436-451), called when replica r is
\* connected again under the new client id: pending are the messages r
\* submitted while it was disconnected.  trySubmitMessage resubmits the
\* messages of the interval map; what is submitted is recorded with the
\* collaboration identity the client had when it was submitted.
onConnect(r, id) ==
    /\ ~connected[r]
    /\ LET pending == outbox[r]
           c == client[r]
           mapMsgs == SelectSeq(pending, Handled)
           replayed == [i \in 1..Len(mapMsgs) |->
                          Envelope(id, delivered[r], "op", mapMsgs[i].contents)]
           rebound == IF c.collaborating THEN updateCollaboration(c, id) ELSE c
           reset == resetPendingSegmentsToOp(rebound)
           groupOp == [i \in 1..Len(reset.ops) |->
                         Envelope(id, delivered[r], "op", reset.ops[i])]
           net == SequencedAll([log |-> log, lastRef |-> lastRef], r,
                               replayed \o groupOp)
       IN /\ client' = [client EXCEPT ![r] = reset.client]
          /\ log' = net.log
          /\ lastRef' = net.lastRef
          /\ lastConnect' =
                [replica |-> r, id |-> id, pendingGroups |-> Len(c.pending),
                 submitted |->
                    [i \in 1..Len(replayed) |->
                        [type |-> replayed[i].contents.type,
                         identity |-> c.longClientId]]
                    \o [i \in 1..Len(groupOp) |->
                           [type |-> groupOp[i].contents.type,
                            identity |-> rebound.longClientId]]]
    /\ outbox' = [outbox EXCEPT ![r] = << >>]
    /\ connected' = [connected EXCEPT ![r] = TRUE]
    /\ runtimeClientId' = [runtimeClientId EXCEPT ![r] = id]
    /\ UNCHANGED <<seqVars, delivered, edits, recording, lastEdit, lastProc,
                   loadVars, mapVars, snapVars>>

\* a mutant of CreateNeeded: the collection is created whether or not the
\* label has one
CreateNeededAlways(map, label) == TRUE

\* "if (!this.intervalMapKernel.has(labelPath))" (sequence.ts:388)
CreateNeeded(map, label) == map[label].id = 0

\* getIntervalCollection(label) (sequence.ts:385-398).  createValueType
\* instantiates the collection, reports the key as changed and submits the
\* map's op; the call returns the collection the map then holds.
getIntervalCollection(r, label) ==
    LET create == CreateNeeded(intervalMap[r], label)
        created == [intervalMap[r] EXCEPT ![label] = Collection(nextInst[r] + 1)]
        map == IF create
               THEN valueChanged(created, label, valueChangedListeners[r])
               ELSE intervalMap[r]
    IN /\ intervalMap' = [intervalMap EXCEPT ![r] = map]
       /\ nextInst' = [nextInst EXCEPT ![r] = IF create THEN @ + 1 ELSE @]
       /\ creates' = [creates EXCEPT ![r][label] = IF create THEN @ + 1 ELSE @]
       /\ IF create
          THEN SubmitLocal(r, <<Stamped(r, "op", MapCreateOp(label))>>)
          ELSE UNCHANGED <<log, lastRef, outbox>>
       /\ lastGet' = Record(lastGet, [replica |-> r, label |-> label,
                                      had |-> intervalMap[r][label].id # 0,
                                      before |-> intervalMap[r][label].id,
                                      returned |-> map[label].id])
       /\ UNCHANGED <<clientVars, seqVars, connected, delivered, runtimeClientId,
                      ghostVars, loadVars, valueChangedListeners, snapVars>>

\* loadCore(branchId, storage) (sequence.ts:457-476) up to its first await:
\* the header blob is being read
loadCore(r) ==
    /\ pc[r] = "new"
    /\ pc' = [pc EXCEPT ![r] = "readHeader"]
    /\ UNCHANGED <<clientVars, seqVars, netVars, ghostVars, settles, loadFailed,
                   mapVars, snapVars>>

\* intervalMapKernel.populate(data): every label of the header gets a
\* collection instantiated from the header
populate(map, header, id) ==
    [l \in Labels |-> IF l \in header THEN Collection(id) ELSE map[l]]

\* loadCore from the end of storage.read to the await of loader.initialize
\* (sequence.ts:461-467).  The read or populate may throw: nothing catches
\* it, and loadCore is over.
headerRead(r, outcome, header) ==
    /\ pc[r] = "readHeader"
    /\ IF outcome = "ok"
       THEN /\ pc' = [pc EXCEPT ![r] = "initialize"]
            /\ intervalMap' = [intervalMap EXCEPT ![r] =
                                 populate(@, header, nextInst[r] + 1)]
            /\ nextInst' = [nextInst EXCEPT ![r] = @ + 1]
            /\ UNCHANGED loadFailed
       ELSE /\ pc' = [pc EXCEPT ![r] = "threw"]
            /\ loadFailed' = [loadFailed EXCEPT ![r] = TRUE]
            /\ UNCHANGED <<intervalMap, nextInst>>
    /\ UNCHANGED <<clientVars, seqVars, netVars, ghostVars, settles,
                   valueChangedListeners, creates, lastGet, snapVars>>

\* the catch-up messages of a snapshot taken at sequence number k: the
\* merge tree messages up to k; message bad of them, if any, is corrupt
CatchUp(k, bad) ==
    SelectSeq([i \in 1..k |-> IF i = bad THEN [log[i] EXCEPT !.corrupt = TRUE]
                                        ELSE log[i]],
              LAMBDA m : ~Handled(m))

RECURSIVE Replay(_, _)
\* msgs.forEach((m) => this.processMergeTreeMsg(m)) (sequence.ts:471): the
\* first message that throws ends the loop
Replay(st, msgs) ==
    IF msgs = << >> \/ st.threw THEN st
    ELSE CHOOSE out \in {Replay(next, Tail(msgs)) :
                            next \in {MergeTreeMsgProcessed(st, Head(msgs))}} : TRUE

\* Deferred.resolve and Deferred.reject: a settled promise stays as it is
Settled(deferred, outcome) == IF deferred = "pending" THEN outcome ELSE deferred

\* initializeIntervalCollections (sequence.ts:598-613), the loop: every
\* collection of the map is attached
AttachedAll(map) ==
    [l \in Labels |-> IF map[l].id # 0 THEN attach(map[l]) ELSE map[l]]

\* loadFinished(error) (sequence.ts:586-596)
loadFinished(r, error) ==
    /\ valueChangedListeners' = [valueChangedListeners EXCEPT ![r] = @ + 1]
    /\ intervalMap' = [intervalMap EXCEPT ![r] = AttachedAll(@)]
    /\ settles' = [settles EXCEPT ![r] = @ + 1]
    /\ loadedDeferred' = [loadedDeferred EXCEPT ![r] =
                             Settled(@, IF error THEN "rejected" ELSE "resolved")]
    /\ isLoaded' = [isLoaded EXCEPT ![r] = IF error THEN @ ELSE TRUE]

\* loadCore from the end of loader.initialize to its return
\* (sequence.ts:468-475): the catch-up messages are replayed, and
\* loadFinished gets the error, if initialize or the replay threw
loaderInitialized(r, rejects, k, bad) ==
    /\ pc[r] = "initialize"
    /\ \E st \in {IF rejects THEN SeqState(r)
                   ELSE Replay(SeqState(r), CatchUp(k, bad))} :
          /\ client' = [client EXCEPT ![r] = st.client]
          /\ messagesSinceMSNChange' = [messagesSinceMSNChange EXCEPT ![r] = st.buf]
          /\ deltaListeners' = [deltaListeners EXCEPT ![r] = st.listeners]
          /\ mergeTreeDeltaCallback' =
                [mergeTreeDeltaCallback EXCEPT ![r] = st.callback]
          /\ lastGC' = [lastGC EXCEPT ![r] = st.gc]
          /\ delivered' = [delivered EXCEPT ![r] = IF rejects THEN @ ELSE k]
          /\ loadFinished(r, rejects \/ st.threw)
          /\ loadFailed' = [loadFailed EXCEPT ![r] = rejects \/ st.threw]
    /\ pc' = [pc EXCEPT ![r] = "returned"]
    /\ UNCHANGED <<connected, outbox, log, lastRef, runtimeClientId, ghostVars,
                   nextInst, creates, lastGet, lastSnap>>

\* Client.startCollaboration(longClientId, minSeq): the client collaborates
\* under the identity, its window starting at minSeq
startCollaboration(c, longClientId, minSeq) ==
    [c EXCEPT !.longClientId = longClientId, !.minSeq = minSeq,
              !.collaborating = TRUE]

\* registerCore() (sequence.ts:489-497), called once when a sequence that
\* was created locally is registered; the interval collections of the map
\* are no shared objects, so the loop registers nothing
registerCore(r) ==
    /\ pc[r] = "local"
    /\ ~client[r].collaborating
    /\ client' = [client EXCEPT ![r] = startCollaboration(@, runtimeClientId[r], 0)]
    /\ UNCHANGED <<seqVars, netVars, ghostVars, loadVars, mapVars, snapVars>>

\* this.runtime.deltaManager.minimumSequenceNumber: the minimum sequence
\* number of the last message the replica has got
DeltaManagerMin(r) ==
    IF delivered[r] = 0 THEN 0 ELSE log[delivered[r]].minimumSequenceNumber

\* this.runtime.deltaManager.referenceSequenceNumber: the sequence number of
\* the last message the replica has got
DeltaManagerRef(r) == delivered[r]

\* a mutant of SnapshotSeqNumbers: the two sequence numbers are passed in
\* each other's place
SnapshotSeqNumbersSwapped(c, minSeq, refSeq) == updateSeqNumbers(c, refSeq, minSeq)

\* this.client.updateSeqNumbers(minSeq, referenceSequenceNumber)
\* (sequence.ts:516)
SnapshotSeqNumbers(c, minSeq, refSeq) == updateSeqNumbers(c, minSeq, refSeq)

\* a mutant of Restamped: the messages keep the minimumSequenceNumber they
\* came with
RestampedKept(buf, minSeq) == buf

\* "this.messagesSinceMSNChange.forEach((m) => m.minimumSequenceNumber =
\* minSeq)" (sequence.ts:525)
Restamped(buf, minSeq) ==
    [i \in 1..Len(buf) |-> [buf[i] EXCEPT !.minimumSequenceNumber = minSeq]]

\* snapshot() (sequence.ts:400-424) with snapshotMergeTree()
\* (sequence.ts:505-533); deltaManager tells whether the runtime has a delta
\* manager.  The assertion of line 507 fails before anything is changed; the
\* assertion of line 520 fails after the buffer has been compacted and the
\* window updated.
snapshot(r, deltaManager) ==
    /\ LET minSeq == IF deltaManager THEN DeltaManagerMin(r) ELSE 0
           c == IF deltaManager
                THEN SnapshotSeqNumbers(client[r], minSeq, DeltaManagerRef(r))
                ELSE client[r]
           buf == IF deltaManager
                  THEN processMinSequenceNumberChanged(messagesSinceMSNChange[r], minSeq)
                  ELSE messagesSinceMSNChange[r]
           failed == deltaManager /\ c.minSeq # minSeq
       IN IF ~isLoaded[r]
          THEN /\ lastSnap' = Record(lastSnap,
                                     [replica |-> r, deltaManager |-> deltaManager,
                                      threw |-> TRUE, minSeq |-> minSeq])
               /\ UNCHANGED <<client, messagesSinceMSNChange, lastGC>>
          ELSE /\ client' = [client EXCEPT ![r] = c]
               /\ messagesSinceMSNChange' =
                     [messagesSinceMSNChange EXCEPT ![r] =
                         IF failed THEN buf ELSE Restamped(buf, minSeq)]
               /\ lastGC' = [lastGC EXCEPT ![r] =
                                IF deltaManager
                                THEN GCPass(minSeq, "snapshot", DeltaManagerRef(r))
                                ELSE @]
               /\ lastSnap' = Record(lastSnap,
                                     [replica |-> r, deltaManager |-> deltaManager,
                                      threw |-> failed, minSeq |-> minSeq])
    /\ UNCHANGED <<deltaListeners, mergeTreeDeltaCallback, isLoaded, loadedDeferred,
                   netVars, edits, recording, lastEdit, lastProc, lastConnect,
                   loadVars, mapVars>>

(***************************************************************************)
(* A session in progress: the replicas have exchanged and processed the    *)
(* first messages of a session in which they take turns, each having       *)
(* processed every earlier message: first inserts at the end of the        *)
(* sequence, then annotates of its first segment.                          *)
(***************************************************************************)
\* the payload identities of the session's segments lie above this
SessionIds == 100

\* the inserts a session starts with
SessionInserts == 2

\* the messages of a session long enough for the History Buffer to have
\* passed its trigger length
LongSession == GCTrigger + 2

\* the op of message i of the session
SessionOp(i) ==
    IF i <= SessionInserts
    THEN createInsertOp(i - 1, SegSpec(SessionIds + i, 1, NoProps))
    ELSE createAnnotateRangeOp(0, 1, Prop1("k", i % 2))

\* the replica that submits message i of the session
SessionSender(i) == IF i % 2 = 1 THEN "A" ELSE "B"

\* the replicas and the transport before the first message
SessionStart ==
    [seq |-> [r \in Replicas |->
                 [client |-> ClientState(<< >>, 0, 0, << >>, r, TRUE),
                  buf |-> << >>, listeners |-> 0, callback |-> FALSE,
                  gc |-> NoGC, threw |-> FALSE]],
     net |-> [log |-> << >>, lastRef |-> [r \in Replicas |-> 0]]]

\* message i of the session: its sender makes the local edit and submits
\* the op, the transport sequences it, and every replica processes it
SessionStep(S, i) ==
    LET s == SessionSender(i)
        op == SessionOp(i)
        c == S.seq[s].client
        a == ApplyOne(c.tree, op, LocalSeq(c), s, LocalView)
        edited == AfterLocal(c, a, op.type, DOMAIN op.props)
        net == Sequenced(S.net, s, Envelope(s, i - 1, "op", op))
    IN [seq |-> [r \in Replicas |->
                    MergeTreeMsgProcessed(
                        [S.seq[r] EXCEPT !.client = IF r = s THEN edited ELSE @],
                        net.log[i])],
        net |-> net]

RECURSIVE Session(_)
\* the replicas and the transport after the first n messages of the session
Session(n) ==
    IF n = 0 THEN SessionStart
    ELSE CHOOSE out \in {SessionStep(prev, n) : prev \in {Session(n - 1)}} : TRUE

\* two live replicas after the first n messages of a session
SessionInit(n) ==
    /\ \E S \in {Session(n)} :
          /\ client = [r \in Replicas |-> S.seq[r].client]
          /\ messagesSinceMSNChange = [r \in Replicas |-> S.seq[r].buf]
          /\ log = S.net.log
          /\ lastRef = S.net.lastRef
          /\ lastGC = [r \in Replicas |-> S.seq[r].gc]
    /\ delivered = [r \in Replicas |-> n]
    /\ deltaListeners = [r \in Replicas |-> 0]
    /\ mergeTreeDeltaCallback = [r \in Replicas |-> FALSE]
    /\ isLoaded = [r \in Replicas |-> TRUE]
    /\ loadedDeferred = [r \in Replicas |-> "resolved"]
    /\ pc = [r \in Replicas |-> "local"]
    /\ settles = [r \in Replicas |-> 1]
    /\ loadFailed = [r \in Replicas |-> FALSE]
    /\ intervalMap = [r \in Replicas |-> [l \in Labels |-> NoCollection]]
    /\ valueChangedListeners = [r \in Replicas |-> 1]
    /\ nextInst = [r \in Replicas |-> 0]
    /\ creates = [r \in Replicas |-> [l \in Labels |-> 0]]
    /\ lastGet = NoGet
    /\ connected = [r \in Replicas |-> TRUE]
    /\ outbox = [r \in Replicas |-> << >>]
    /\ runtimeClientId = [r \in Replicas |-> r]
    /\ edits = 0
    /\ lastEdit = NoEdit
    /\ lastProc = NoProc
    /\ lastConnect = NoConnect
    /\ lastSnap = NoSnap

vars == <<proxyVars, clientVars, seqVars, netVars, ghostVars, loadVars, mapVars,
          snapVars, delta>>

\* two live replicas; the calls are not recorded
Init ==
    /\ ProxyInit
    /\ SeqInit(Replicas)
    /\ recording = FALSE
    /\ delta = NoDelta

seqAll == <<clientVars, seqVars, netVars, ghostVars, loadVars, mapVars, snapVars,
           delta>>

ProxyNext ==
    \/ systemPause /\ UNCHANGED seqAll
    \/ pause /\ UNCHANGED seqAll
    \/ systemResume /\ UNCHANGED seqAll
    \/ resume /\ UNCHANGED seqAll

SpecProxy == Init /\ [][ProxyNext]_vars

\* positions a local edit may name: every position of the tree, and one beyond
Positions(r) == 0..(TreeLength(client[r].tree, LocalView) + 1)

\* two live replicas editing one sequence through the transport
ConvNext ==
    \/ \E r \in Replicas : \E pos \in Positions(r) :
          insertAtReferencePosition(r, pos) /\ UNCHANGED restVars
    \/ \E r \in Replicas : \E start, end \in Positions(r) :
          removeRange(r, start, end) /\ UNCHANGED restVars
    \/ \E r \in Replicas : \E start, end \in Positions(r) : \E v \in 0..MaxVal :
          annotateRange(r, start, end, Prop1("k", v)) /\ UNCHANGED restVars
    \/ \E r \in Replicas : processCore(r) /\ UNCHANGED restVars

Spec == Init /\ [][ConvNext]_vars

\* two live replicas inserting and removing: the edits that change which
\* positions a view has
ResolveNext ==
    \/ \E r \in Replicas : \E pos \in Positions(r) :
          insertAtReferencePosition(r, pos) /\ UNCHANGED restVars
    \/ \E r \in Replicas : \E start, end \in Positions(r) :
          removeRange(r, start, end) /\ UNCHANGED restVars
    \/ \E r \in Replicas : processCore(r) /\ UNCHANGED restVars

SpecResolve == Init /\ [][ResolveNext]_vars

\* two live replicas; the calls are recorded
InitRecording ==
    /\ ProxyInit
    /\ SeqInit(Replicas)
    /\ recording = TRUE
    /\ delta = NoDelta

\* replica A edits, and both replicas process what the transport sequenced
LocalNext ==
    \/ \E pos \in Positions("A") :
          insertAtReferencePosition("A", pos) /\ UNCHANGED restVars
    \/ \E start, end \in Positions("A") :
          removeRange("A", start, end) /\ UNCHANGED restVars
    \/ \E start, end \in Positions("A") : \E v \in 0..MaxVal :
          annotateRange("A", start, end, Prop1("k", v)) /\ UNCHANGED restVars
    \/ \E r \in Replicas : processCore(r) /\ UNCHANGED restVars

SpecLocal == InitRecording /\ [][LocalNext]_vars

\* replica A edits, and the transport may deliver a message again
AgainNext ==
    \/ \E pos \in Positions("A") :
          insertAtReferencePosition("A", pos) /\ UNCHANGED restVars
    \/ \E start, end \in Positions("A") :
          removeRange("A", start, end) /\ UNCHANGED restVars
    \/ \E r \in Replicas : processCore(r) /\ UNCHANGED restVars
    \/ \E r \in Replicas : processCoreAgain(r) /\ UNCHANGED restVars

SpecAgain == InitRecording /\ [][AgainNext]_vars

\* replica A is live and replica B loads the sequence
InitLoad ==
    /\ ProxyInit
    /\ SeqInit({"A"})
    /\ recording = FALSE
    /\ delta = NoDelta

\* replica A inserts and replica B loads; the load may fail at every step
LoadNext ==
    \/ \E pos \in Positions("A") :
          insertAtReferencePosition("A", pos) /\ UNCHANGED restVars
    \/ \E r \in Replicas : loadCore(r) /\ UNCHANGED restVars
    \/ \E r \in Replicas : \E outcome \in {"ok", "readFails", "populateFails"} :
       \E header \in SUBSET Labels :
          headerRead(r, outcome, header) /\ UNCHANGED restVars
    \/ \E r \in Replicas : \E rejects \in BOOLEAN :
       \E k \in 0..Len(log) : \E bad \in 0..k :
          loaderInitialized(r, rejects, k, bad) /\ UNCHANGED restVars
    \/ \E r \in Replicas : processCore(r) /\ UNCHANGED restVars

SpecLoad == InitLoad /\ [][LoadNext]_vars

\* both replicas get interval collections, before, while and after replica
\* B loads
IntervalsNext ==
    \/ \E r \in Replicas : \E l \in Labels :
          getIntervalCollection(r, l) /\ UNCHANGED restVars
    \/ \E r \in Replicas : loadCore(r) /\ UNCHANGED restVars
    \/ \E r \in Replicas : \E outcome \in {"ok", "readFails", "populateFails"} :
       \E header \in SUBSET Labels :
          headerRead(r, outcome, header) /\ UNCHANGED restVars
    \/ \E r \in Replicas : \E rejects \in BOOLEAN :
       \E k \in 0..Len(log) : \E bad \in 0..k :
          loaderInitialized(r, rejects, k, bad) /\ UNCHANGED restVars
    \/ \E r \in Replicas : processCore(r) /\ UNCHANGED restVars

SpecIntervals == InitLoad /\ [][IntervalsNext]_vars

\* two live replicas get interval collections and process each other's
\* creations
GetNext ==
    \/ \E r \in Replicas : \E l \in Labels :
          getIntervalCollection(r, l) /\ UNCHANGED restVars
    \/ \E r \in Replicas : processCore(r) /\ UNCHANGED restVars

SpecGet == InitRecording /\ [][GetNext]_vars

\* the client id the transport gives replica r when it connects again
NewClientId(r) == runtimeClientId[r] \o "'"

\* two live replicas; replica A inserts, removes and gets an interval
\* collection, connected or not, and may lose its connection and connect
\* again
ConnectNext ==
    \/ \E pos \in Positions("A") :
          insertAtReferencePosition("A", pos) /\ UNCHANGED restVars
    \/ \E start, end \in Positions("A") :
          removeRange("A", start, end) /\ UNCHANGED restVars
    \/ getIntervalCollection("A", "a") /\ UNCHANGED restVars
    \/ onDisconnect("A") /\ UNCHANGED restVars
    \/ onConnect("A", NewClientId("A")) /\ UNCHANGED restVars
    \/ \E r \in Replicas : processCore(r) /\ UNCHANGED restVars

SpecConnect == Init /\ [][ConnectNext]_vars

\* two live replicas of a sequence of two segments; the calls are recorded
InitAnnotate ==
    /\ ProxyInit
    /\ SessionInit(SessionInserts)
    /\ recording = TRUE
    /\ delta = NoDelta

\* replica A annotates, and both replicas process what the transport
\* sequenced
AnnotateNext ==
    \/ \E start, end \in Positions("A") : \E v \in 0..MaxVal :
          annotateRange("A", start, end, Prop1("k", v)) /\ UNCHANGED restVars
    \/ \E r \in Replicas : processCore(r) /\ UNCHANGED restVars

SpecAnnotate == InitAnnotate /\ [][AnnotateNext]_vars

\* replica A was created locally and is not registered yet; replica B
\* loads the sequence
InitWindow ==
    /\ ProxyInit
    /\ SeqInitOf({"A"}, {})
    /\ recording = FALSE
    /\ delta = NoDelta

\* replica A is registered; then the replicas insert and process, replica A
\* gets an interval collection, loses its connection and connects again,
\* replica B loads, and snapshots are taken
WindowNext ==
    \/ registerCore("A") /\ UNCHANGED restVars
    \/ /\ client["A"].collaborating
       /\ \/ isLoaded["B"] /\ insertAtReferencePosition("B", 0) /\ UNCHANGED restVars
          \/ getIntervalCollection("A", "a") /\ UNCHANGED restVars
          \/ \E r \in Replicas : processCore(r) /\ UNCHANGED restVars
          \/ snapshot("B", TRUE) /\ UNCHANGED restVars
          \/ loadCore("B") /\ UNCHANGED restVars
          \/ headerRead("B", "ok", {}) /\ UNCHANGED restVars
          \/ loaderInitialized("B", FALSE, Len(log), 0) /\ UNCHANGED restVars
          \/ onDisconnect("A") /\ UNCHANGED restVars
          \/ onConnect("A", NewClientId("A")) /\ UNCHANGED restVars

SpecWindow == InitWindow /\ [][WindowNext]_vars

\* two live replicas of a sequence of two segments; the calls are recorded
InitStash ==
    /\ ProxyInit
    /\ SessionInit(SessionInserts)
    /\ recording = TRUE
    /\ delta = NoDelta

\* replica A removes, replica B inserts at the start or after the first
\* segment, and both process what the transport sequenced
StashNext ==
    \/ \E start, end \in Positions("A") :
          removeRange("A", start, end) /\ UNCHANGED restVars
    \/ \E pos \in 0..1 :
          insertAtReferencePosition("B", pos) /\ UNCHANGED restVars
    \/ \E r \in Replicas : processCore(r) /\ UNCHANGED restVars

SpecStash == InitStash /\ [][StashNext]_vars

\* two live replicas in a long session, each with the whole session in its
\* History Buffer
InitGC ==
    /\ ProxyInit
    /\ SessionInit(LongSession)
    /\ recording = FALSE
    /\ delta = NoDelta

\* the replicas insert at the start, process what the transport sequenced
\* and take snapshots
GCNext ==
    \/ \E r \in Replicas : insertAtReferencePosition(r, 0) /\ UNCHANGED restVars
    \/ \E r \in Replicas : processCore(r) /\ UNCHANGED restVars
    \/ \E r \in Replicas : snapshot(r, TRUE) /\ UNCHANGED restVars

SpecGC == InitGC /\ [][GCNext]_vars

\* replica A is live and replica B loads the sequence
InitBuffer ==
    /\ ProxyInit
    /\ SeqInit({"A"})
    /\ recording = FALSE
    /\ delta = NoDelta

\* replica A inserts and gets an interval collection; replica B loads,
\* the last catch-up message may be corrupt, and inserts when the load has
\* returned; both process what the transport sequenced, and replica A takes
\* snapshots
BufferNext ==
    \/ insertAtReferencePosition("A", 0) /\ UNCHANGED restVars
    \/ pc["B"] = "returned" /\ insertAtReferencePosition("B", 0) /\ UNCHANGED restVars
    \/ getIntervalCollection("A", "a") /\ UNCHANGED restVars
    \/ loadCore("B") /\ UNCHANGED restVars
    \/ headerRead("B", "ok", {}) /\ UNCHANGED restVars
    \/ \E k \in 0..Len(log) : \E bad \in {0, k} :
          loaderInitialized("B", FALSE, k, bad) /\ UNCHANGED restVars
    \/ \E r \in Replicas : processCore(r) /\ UNCHANGED restVars
    \/ snapshot("A", TRUE) /\ UNCHANGED restVars

SpecBuffer == InitBuffer /\ [][BufferNext]_vars

\* two live replicas; users of replica A's sequence listen to its deltas
InitReentrant ==
    /\ ProxyInit
    /\ SeqInit(Replicas)
    /\ recording = FALSE
    /\ delta = NoDelta

\* replica B inserts at the start; users register and remove listeners on
\* replica A; both replicas process what the transport sequenced, and a
\* listener of replica A may answer a remote delta with an insert
ReentrantNext ==
    \/ insertAtReferencePosition("B", 0) /\ UNCHANGED restVars
    \/ on("A") /\ UNCHANGED restVars
    \/ removeListener("A") /\ UNCHANGED restVars
    \/ \E r \in Replicas : processCore(r) /\ UNCHANGED restVars
    \/ processCoreReentrant("A") /\ UNCHANGED restVars

SpecReentrant == InitReentrant /\ [][ReentrantNext]_vars

\* the keys of the segments of a delta event
RangeKeys == {"k", "j"}

\* the property sets of the segments of a delta event: key "j" is never
\* defined
RangePropSets == {NoProps, Prop1("k", 1)}

\* the positions of the ranges of a delta event
MaxPosition == 2

\* the ranges of an event of the operation: position, segment (cachedLength
\* 1 or 2) and, for an annotate, the changed keys
RangesFor(operation) ==
    IF operation = "ANNOTATE"
    THEN [position : 0..MaxPosition,
          seg : {SegSpec(1, len, props) : len \in 1..2, props \in RangePropSets},
          deltas : {{"k"}, RangeKeys}]
    ELSE [position : 0..MaxPosition,
          seg : {SegSpec(1, len, NoProps) : len \in 1..2},
          deltas : {{}}]

\* the delta events createOpsFromDelta is applied to
Events ==
    UNION {{DeltaEvent(operation, ranges) :
               ranges \in UNION {[1..n -> RangesFor(operation)] : n \in 0..MaxRanges}} :
           operation \in {"ANNOTATE", "INSERT", "REMOVE"}}

\* an event, not yet re-expressed
InitDelta ==
    /\ ProxyInit
    /\ SeqInit(Replicas)
    /\ recording = FALSE
    /\ delta \in {[event |-> e, ops |-> << >>, built |-> FALSE] : e \in Events}

\* createOpsFromDelta(event) (sequence.ts:51-95) applied to the event
createOps ==
    /\ ~delta.built
    /\ delta' = [delta EXCEPT !.ops = createOpsFromDelta(delta.event), !.built = TRUE]
    /\ UNCHANGED <<proxyVars, clientVars, seqVars, netVars, ghostVars, loadVars,
                   mapVars, snapVars>>

DeltaNext == createOps

SpecDelta == InitDelta /\ [][DeltaNext]_vars

\* two live replicas of a sequence of two segments; the calls are recorded
InitReplace ==
    /\ ProxyInit
    /\ SessionInit(SessionInserts)
    /\ recording = TRUE
    /\ delta = NoDelta

\* replica A replaces ranges, empty ones and ones beyond the end included,
\* and both replicas process what the transport sequenced
ReplaceNext ==
    \/ \E start, end \in Positions("A") :
          start <= end /\ replaceRange("A", start, end) /\ UNCHANGED restVars
    \/ \E r \in Replicas : processCore(r) /\ UNCHANGED restVars

SpecReplace == InitReplace /\ [][ReplaceNext]_vars

\* replica A is live and replica B loads the sequence; the calls are
\* recorded
InitSnapshot ==
    /\ ProxyInit
    /\ SeqInit({"A"})
    /\ recording = TRUE
    /\ delta = NoDelta

\* replica A inserts, and replica B when its load has returned; replica B
\* loads, the last catch-up message may be corrupt; both process what the
\* transport sequenced; a snapshot is taken of either at any time, and of
\* replica B also in a runtime without a delta manager
SnapshotNext ==
    \/ insertAtReferencePosition("A", 0) /\ UNCHANGED restVars
    \/ pc["B"] = "returned" /\ insertAtReferencePosition("B", 0) /\ UNCHANGED restVars
    \/ loadCore("B") /\ UNCHANGED restVars
    \/ headerRead("B", "ok", {}) /\ UNCHANGED restVars
    \/ \E k \in 0..Len(log) : \E bad \in {0, k} :
          loaderInitialized("B", FALSE, k, bad) /\ UNCHANGED restVars
    \/ \E r \in Replicas : processCore(r) /\ UNCHANGED restVars
    \/ \E r \in Replicas : snapshot(r, TRUE) /\ UNCHANGED restVars
    \/ snapshot("B", FALSE) /\ UNCHANGED restVars

SpecSnapshot == InitSnapshot /\ [][SnapshotNext]_vars

(***************************************************************************)
(* Claims.                                                                 *)
(***************************************************************************)
\* every replica has got every message and nothing waits to be sequenced
Quiescent == \A r \in Replicas : outbox[r] = << >> /\ delivered[r] = Len(log)

\* C1: convergence.  Once all replicas have applied the whole history, in
\* sequence number order, their visible content (the live segments in order,
\* with their properties) is the same, whatever local edits were pending when
\* each message arrived.
C1_Convergence ==
    Quiescent =>
        \A r, q \in Replicas : Content(client[r].tree) = Content(client[q].tree)

\* C1, the case of the two concurrent inserts: messages 1 and 2 are inserts
\* at position 0 by different clients, both with reference sequence number
\* 0, and both replicas have applied them
C1_Witness ==
    /\ Quiescent
    /\ Len(log) = 2
    /\ \A i \in 1..2 :
          /\ log[i].contents.type = "insert"
          /\ log[i].contents.pos1 = 0
          /\ log[i].referenceSequenceNumber = 0
    /\ log[1].clientId # log[2].clientId
    /\ \A r \in Replicas : Len(Content(client[r].tree)) = 2

\* C2: pause composition.  queue.resume() is invoked only by a call that
\* leaves both systemPaused and localPaused false, and while either flag is
\* true the wrapped queue is paused.
C2_PauseComposition ==
    /\ \A i \in 1..Len(calls) :
          calls[i].resumed => ~calls[i].sys /\ ~calls[i].loc
    /\ (systemPaused \/ localPaused) => queuePaused

\* C2: one caller has resumed while the other's pause is active, and the
\* queue was not resumed
C2_Witness ==
    /\ calls # << >>
    /\ calls[Len(calls)].call \in {"resume", "systemResume"}
    /\ systemPaused # localPaused
    /\ ~calls[Len(calls)].resumed
    /\ queuePaused

\* call i is the first of a systemResume() and a resume(), in either order,
\* made when both callers had paused
BothResume(i) ==
    /\ i > 1
    /\ i < Len(calls)
    /\ calls[i - 1].sys
    /\ calls[i - 1].loc
    /\ {calls[i].call, calls[i + 1].call} = {"systemResume", "resume"}

\* C3: from both paused, systemResume() and resume() once each, in either
\* order, invoke queue.resume() exactly once: on the second call, not on the
\* first.
C3_ResumeOnce ==
    \A i \in 1..Len(calls) :
        BothResume(i) => ~calls[i].resumed /\ calls[i + 1].resumed

\* C3: from both paused, resume() and then systemResume() have been called,
\* and the queue is resumed
C3_Witness ==
    \E i \in 1..Len(calls) :
        /\ BothResume(i)
        /\ calls[i].call = "resume"
        /\ ~queuePaused

SubmittedBy(r) == Len(log) + Len(outbox[r])

\* the step is a local edit: it took effect, or it has been recorded (an
\* edit that does neither changes nothing at all)
EditStep == edits' # edits \/ lastEdit' # lastEdit

\* C8: local no-op edits submit nothing.  removeRange(start, end) with
\* start = end returns no op, submits no message and leaves the content
\* unchanged; removeRange and annotateRange submit exactly one message when
\* the client returns an op and none when it returns none.
C8_NoOpSubmitsNothing ==
    [][EditStep /\ lastEdit'.kind \in {"remove", "annotate"} =>
        \A r \in Replicas : r = lastEdit'.replica =>
           /\ SubmittedBy(r)' - SubmittedBy(r) = IF lastEdit'.returned THEN 1 ELSE 0
           /\ (lastEdit'.kind = "remove" /\ lastEdit'.empty) =>
                 /\ ~lastEdit'.returned
                 /\ Content(client'[r].tree) = Content(client[r].tree)]_vars

\* C8: removeRange(start, end) with start = end has been called on a
\* sequence that is not empty
C8_Witness ==
    /\ lastEdit.kind = "remove"
    /\ lastEdit.empty
    /\ ~lastEdit.returned
    /\ Content(client[lastEdit.replica].tree) # << >>
    /\ log # << >>

\* C5: protocol violations are never silently accepted.  When processCore
\* gets a message whose sequence number is not above that of the message
\* applied before it, the call fails, and the message is neither applied to
\* the segment store nor appended to the history buffer.
C5_ViolationRejected ==
    [][(lastProc' # lastProc /\ lastProc'.seq <= lastProc'.prev) =>
          /\ lastProc'.threw
          /\ client' = client
          /\ messagesSinceMSNChange' = messagesSinceMSNChange]_vars

\* C6: load never hangs.  Once loadCore is over, the loaded signal has been
\* settled exactly once: rejected, with isLoaded false, when a step of the
\* load failed, and resolved, with isLoaded true, when every step succeeded.
C6_LoadSettles ==
    \A r \in Replicas : pc[r] \in {"returned", "threw"} =>
        /\ settles[r] = 1
        /\ loadFailed[r] => loadedDeferred[r] = "rejected" /\ ~isLoaded[r]
        /\ ~loadFailed[r] => loadedDeferred[r] = "resolved" /\ isLoaded[r]

\* C6: replica B's loadCore is over because reading the header failed
C6_HeaderReadFailed ==
    /\ pc["B"] = "threw"
    /\ loadFailed["B"]
    /\ loadedDeferred["B"] = "pending"

\* the load of replica r has finished: loadFinished has run
LoadHasFinished(r) == pc[r] \in {"local", "returned"}

\* C9: every interval collection is attached exactly once.  No collection
\* is attached twice, and once the load has finished every collection the
\* map holds is attached.
C9_AttachedOnce ==
    \A r \in Replicas : \A l \in Labels :
        /\ intervalMap[r][l].attached <= 1
        /\ (LoadHasFinished(r) /\ intervalMap[r][l].id # 0) =>
              intervalMap[r][l].attached = 1

\* C9: replica B's load has finished, both replicas have created label a
\* and processed each other's creation, so that the listener has run for a
\* collection that was attached already, and replica B's collection of
\* label b is attached too
C9_Witness ==
    /\ Quiescent
    /\ pc["B"] = "returned"
    /\ \A r \in Replicas : creates[r]["a"] = 1 /\ intervalMap[r]["a"].attached = 1
    /\ delivered["B"] = Len(log)
    /\ Len(log) >= 2
    /\ intervalMap["B"]["b"].attached = 1

\* the step is a getIntervalCollection call that has been recorded (a call
\* that is not recorded anew has changed nothing at all)
GetStep == lastGet' # lastGet

TreeSubmitted(submitted) == SelectSeq(submitted, LAMBDA m : m.type # "createValueType")

\* C7: reconnect ordering.  In onConnect the collaboration identity is
\* rebound to the new client id before any pending op is resubmitted, and
\* the pending tree edits are resubmitted as exactly one Group message, none
\* when nothing is pending.
C7_RebindBeforeResubmit ==
    [][lastConnect' # lastConnect =>
          /\ \A i \in 1..Len(lastConnect'.submitted) :
                lastConnect'.submitted[i].identity = lastConnect'.id
          /\ Len(TreeSubmitted(lastConnect'.submitted)) =
                IF lastConnect'.pendingGroups > 0 THEN 1 ELSE 0
          /\ \A i \in 1..Len(TreeSubmitted(lastConnect'.submitted)) :
                TreeSubmitted(lastConnect'.submitted)[i].type = "group"]_vars

\* C7: an onConnect resubmitted a pending message of the interval map and
\* the Group of the pending tree edits
C7_Witness ==
    /\ lastConnect.replica = "A"
    /\ lastConnect.pendingGroups > 0
    /\ Len(lastConnect.submitted) = 2
    /\ lastConnect.submitted[1].type = "createValueType"
    /\ lastConnect.submitted[2].type = "group"

\* the last two messages of l are annotates of one client, the first ending
\* where the second starts, with the same properties
AdjacentAnnotates(l) ==
    /\ Len(l) >= 2
    /\ LET a == l[Len(l) - 1]
           b == l[Len(l)]
       IN /\ a.clientId = b.clientId
          /\ a.contents.type = "annotate"
          /\ b.contents.type = "annotate"
          /\ a.contents.pos2 = b.contents.pos1
          /\ matchProperties(a.contents.props, b.contents.props)

\* C11: adjacent annotates are coalesced.  Two consecutive annotateRange
\* calls of a replica on adjacent ranges with the same properties submit one
\* message for the union of the ranges: the second call never leaves the two
\* ranges as two messages.
C11_AnnotateCoalesced ==
    [][(/\ EditStep
        /\ lastEdit.kind = "annotate" /\ lastEdit.returned
        /\ lastEdit'.kind = "annotate" /\ lastEdit'.returned
        /\ lastEdit'.replica = lastEdit.replica)
          => ~(Len(log') = Len(log) + 1 /\ AdjacentAnnotates(log'))]_vars

\* C11: replica A has annotated [0, 1) and then [1, 2) with the same
\* property, and two messages were submitted
C11_Witness ==
    /\ lastEdit.kind = "annotate"
    /\ lastEdit.returned
    /\ Len(log) = SessionInserts + 2
    /\ AdjacentAnnotates(log)
    /\ log[Len(log)].contents.pos1 = 1
    /\ log[Len(log)].contents.pos2 = 2

\* C12: the collaboration window.  In every state the minimum sequence
\* number of a replica's window is at most its current sequence number, and
\* no step (a message applied, a snapshot taken, a load, a reconnect) lowers
\* the minimum sequence number.
C12_WindowInvariant ==
    [][\A r \in Replicas :
          /\ client[r].minSeq <= client[r].currentSeq
          /\ client'[r].minSeq <= client'[r].currentSeq
          /\ client'[r].minSeq >= client[r].minSeq]_vars

\* C12: replica B has loaded the sequence, replica A has connected again,
\* and a snapshot has raised the minimum sequence number of a replica above
\* the one of the last message the replica applied to its store
C12_Witness ==
    /\ pc["B"] = "returned"
    /\ runtimeClientId["A"] # "A"
    /\ \E r \in Replicas :
          /\ lastGC[r].by = "snapshot"
          /\ lastGC[r].min > 0
          /\ client[r].minSeq = lastGC[r].min
          /\ client[r].currentSeq = delivered[r]
          /\ messagesSinceMSNChange[r] # << >>
          /\ messagesSinceMSNChange[r][Len(messagesSinceMSNChange[r])].sequenceNumber
                < delivered[r]

RECURSIVE Replayed(_, _, _)
\* the store a loader builds from store tree by replaying the messages of
\* buf from the i-th on, in order, each interpreted against the state its
\* predecessor left: in the view that has seen every earlier message
Replayed(tree, buf, i) ==
    IF i > Len(buf) THEN tree
    ELSE LET m == buf[i]
             a == ApplyOps(tree, MemberOps(m.contents), 1, m.sequenceNumber,
                           m.clientId,
                           Persp(m.sequenceNumber - 1, m.clientId, FALSE))
         IN CHOOSE out \in {Replayed(next, buf, i + 1) : next \in {a.tree}} : TRUE

\* C13: replay equivalence.  When nothing has been collected from the
\* History Buffer of a replica and every local edit of the replica has been
\* acknowledged, replaying the buffer in order from an empty store gives the
\* visible content of the replica's store.
C13_ReplayEquivalence ==
    \A r \in Replicas :
        (lastGC[r].by = "none" /\ client[r].pending = << >>) =>
            Content(Replayed(<< >>, messagesSinceMSNChange[r], 1))
                = Content(client[r].tree)

\* C13: a replica has processed its own message that needed transformation:
\* what is stored for it is a Group without ops, and the replay of the
\* buffer lacks the segment the message inserted
C13_Witness ==
    \E r \in Replicas :
        /\ lastGC[r].by = "none"
        /\ client[r].pending = << >>
        /\ Len(messagesSinceMSNChange[r]) = 2
        /\ messagesSinceMSNChange[r][2].clientId = client[r].longClientId
        /\ messagesSinceMSNChange[r][2].contents = createGroupOp(<< >>)
        /\ log[2].contents.type = "insert"
        /\ Len(Content(client[r].tree)) = 2
        /\ Len(Content(Replayed(<< >>, messagesSinceMSNChange[r], 1))) = 1

\* the step is a processCore call that returned normally
ProcStep == lastProc' # lastProc /\ ~lastProc'.threw

\* the last message of buffer buf
LastOf(buf) == buf[Len(buf)]

\* C14: the History Buffer holds transformed messages.  Every entry of the
\* buffer has referenceSequenceNumber = sequenceNumber - 1; what is stored
\* for a message that needed transformation is a copy of it with the
\* referenceSequenceNumber rewritten and the contents replaced by the ops
\* re-expressed from the deltas of its application (the op itself when
\* there is one, a Group of them otherwise), and not the original.
C14_StashedTransformed ==
    [][/\ \A r \in Replicas : \A i \in 1..Len(messagesSinceMSNChange'[r]) :
             messagesSinceMSNChange'[r][i].referenceSequenceNumber
                = messagesSinceMSNChange'[r][i].sequenceNumber - 1
       /\ ProcStep =>
             \A r \in Replicas : r = lastProc'.replica =>
                LET m == log[lastProc'.seq]
                    ops == TransformOps(applyMsg(client[r], m).events, 1)
                IN (~Handled(m)
                    /\ m.referenceSequenceNumber # m.sequenceNumber - 1) =>
                      /\ messagesSinceMSNChange'[r] # << >>
                      /\ LastOf(messagesSinceMSNChange'[r]) # m
                      /\ LastOf(messagesSinceMSNChange'[r]) =
                            [m EXCEPT
                               !.referenceSequenceNumber = m.sequenceNumber - 1,
                               !.contents = IF Len(ops) = 1 THEN ops[1]
                                            ELSE createGroupOp(ops)]]_vars

\* C14: a replica has processed a remote removal that needed
\* transformation and acted on two segments that are not adjacent in the
\* replica's store: a Group of two removals is stored for it; the other
\* replica has stored the one op re-expressed for a remote insert that
\* needed transformation
C14_Witness ==
    /\ \E r \in Replicas :
          LET buf == messagesSinceMSNChange[r]
          IN /\ buf # << >>
             /\ LastOf(buf).contents.type = "group"
             /\ Len(LastOf(buf).contents.ops) = 2
             /\ log[LastOf(buf).sequenceNumber].contents.type = "remove"
             /\ log[LastOf(buf).sequenceNumber].clientId # client[r].longClientId
    /\ \E r \in Replicas :
          LET buf == messagesSinceMSNChange[r]
          IN \E i \in 1..Len(buf) :
                /\ NeedsTransformation(log[buf[i].sequenceNumber])
                /\ buf[i].clientId # client[r].longClientId
                /\ buf[i].contents.type = "insert"

\* C15: the direct path.  A message with referenceSequenceNumber =
\* sequenceNumber - 1 is applied as it is and appended to the History Buffer
\* unchanged; no temporary listener is installed for it, and the listeners
\* and the delta callback stay as they were.
C15_DirectPath ==
    [][ProcStep =>
          \A r \in Replicas : r = lastProc'.replica =>
             LET m == log[lastProc'.seq]
             IN (~Handled(m)
                 /\ m.referenceSequenceNumber = m.sequenceNumber - 1) =>
                   /\ client'[r] = applyMsg(client[r], m).client
                   /\ messagesSinceMSNChange'[r] # << >>
                   /\ LastOf(messagesSinceMSNChange'[r]) = m
                   /\ ~lastProc'.temp
                   /\ deltaListeners'[r] = deltaListeners[r]
                   /\ mergeTreeDeltaCallback'[r] = mergeTreeDeltaCallback[r]]_vars

\* C15: a replica has processed a remote removal that came by the direct
\* path and changed the replica's content
C15_Witness ==
    \E r \in Replicas :
        LET m == log[lastProc.seq]
        IN /\ lastProc.replica = r
           /\ ~lastProc.threw
           /\ ~lastProc.temp
           /\ m.clientId # client[r].longClientId
           /\ m.contents.type = "remove"
           /\ m.referenceSequenceNumber = m.sequenceNumber - 1
           /\ LastOf(messagesSinceMSNChange[r]) = m
           /\ Len(Content(client[r].tree)) < SessionInserts

\* C16: the History Buffer invariant.  With delivery in order, the sequence
\* numbers of a buffer are strictly increasing, and every message of the
\* buffer has a sequence number above the minimum sequence number of the
\* last pass of processMinSequenceNumberChanged, whether processMergeTreeMsg
\* or the snapshot ran it.
C16_BufferInvariant ==
    \A r \in Replicas :
        LET buf == messagesSinceMSNChange[r]
        IN /\ \A i \in 1..(Len(buf) - 1) :
                 buf[i].sequenceNumber < buf[i + 1].sequenceNumber
           /\ lastGC[r].by # "none" =>
                 \A i \in 1..Len(buf) : buf[i].sequenceNumber > lastGC[r].min

\* C16: a pass run by processMergeTreeMsg has dropped messages of one
\* replica, a pass run by the snapshot has dropped messages of the other,
\* and both buffers have messages left
C16_Witness ==
    \E r, q \in Replicas :
        /\ lastGC[r].by = "message"
        /\ lastGC[q].by = "snapshot"
        /\ lastGC[q].min > 0
        /\ messagesSinceMSNChange[r] # << >>
        /\ messagesSinceMSNChange[q] # << >>
        /\ messagesSinceMSNChange[r][1].sequenceNumber = lastGC[r].min + 1
        /\ messagesSinceMSNChange[q][1].sequenceNumber = lastGC[q].min + 1

\* the step is a processCore call of replica r for the next message
Delivery(r) == delivered'[r] = delivered[r] + 1 /\ pc'[r] = pc[r]

\* C17: the trigger and the pass.  When processMergeTreeMsg has appended a
\* message, the pass runs exactly when the buffer has more than 20 entries
\* and the entry at index 20 has a sequence number below the message's
\* minimumSequenceNumber; the pass drops the leading entries before the
\* first one with a sequence number above that minimum, and keeps the others
\* in their order.
C17_TriggerAndPass ==
    [][\A r \in Replicas :
          (Delivery(r) /\ ~Handled(log[delivered'[r]])) =>
             LET m == log[delivered'[r]]
                 min == m.minimumSequenceNumber
                 appended == Append(messagesSinceMSNChange[r],
                                    LastOf(messagesSinceMSNChange'[r]))
                 due == /\ Len(appended) > 20
                        /\ appended[21].sequenceNumber < min
                 ran == lastGC'[r] # lastGC[r]
             IN /\ messagesSinceMSNChange'[r] # << >>
                /\ ran <=> due
                /\ ~ran => messagesSinceMSNChange'[r] = appended
                /\ ran =>
                      \E j \in 1..Len(appended) :
                         /\ appended[j].sequenceNumber > min
                         /\ \A i \in 1..(j - 1) : appended[i].sequenceNumber <= min
                         /\ messagesSinceMSNChange'[r]
                               = SubSeq(appended, j, Len(appended))]_vars

\* C17: a message has been appended as the 21st or a later entry without a
\* pass on one replica, and a pass has left another replica's buffer with
\* more than one message, starting right above the minimum
C17_Witness ==
    /\ \E r \in Replicas :
          /\ Len(messagesSinceMSNChange[r]) > LongSession
          /\ lastGC[r].by = "none"
    /\ \E r \in Replicas :
          /\ lastGC[r].by = "message"
          /\ lastGC[r].at = delivered[r]
          /\ Len(messagesSinceMSNChange[r]) > 1
          /\ messagesSinceMSNChange[r][1].sequenceNumber = lastGC[r].min + 1

\* the sequence numbers of a buffer, in its order
Seqs(buf) == [i \in 1..Len(buf) |-> buf[i].sequenceNumber]

\* s is what is left of t when leading entries are dropped
IsSuffix(s, t) == \E j \in 0..Len(t) : s = SubSeq(t, j + 1, Len(t))

\* the step is the end of replica r's load: the catch-up messages are
\* replayed
LoadStep(r) == pc[r] = "initialize" /\ pc'[r] = "returned"

\* the sequence numbers of the merge-tree messages among the first k of the
\* log that a client now at sequence number cur has applied
AppliedOf(k, cur) ==
    Seqs(SelectSeq(SubSeq(log, 1, k),
                   LAMBDA m : ~Handled(m) /\ m.sequenceNumber <= cur))

\* C18: every merge-tree message that is applied, a remote one or the
\* acknowledgement of an own one, by processCore or by the replay of the
\* load, is appended to the History Buffer once, at its end; a message the
\* interval map takes and a message whose application throws are not
\* appended; the buffer gets shorter only in a step that runs
\* processMinSequenceNumberChanged.
C18_AppendedOnce ==
    [][\A r \in Replicas :
          LET old == Seqs(messagesSinceMSNChange[r])
              new == Seqs(messagesSinceMSNChange'[r])
              m == log[delivered'[r]]
              applied == IF Delivery(r)
                         THEN IF Handled(m) \/ Throws(r, m) THEN << >>
                              ELSE <<m.sequenceNumber>>
                         ELSE IF LoadStep(r)
                         THEN AppliedOf(delivered'[r], client'[r].currentSeq)
                         ELSE << >>
          IN /\ IsSuffix(new, old \o applied)
             /\ Len(new) < Len(old) + Len(applied) => lastGC'[r] # lastGC[r]]_vars

\* C18: replica B's load has replayed a message into the buffer and has
\* failed on a later one, replica A has got a message of the interval map,
\* a snapshot of replica A has dropped messages from its buffer, and the
\* buffer holds a remote message
C18_Witness ==
    /\ loadFailed["B"]
    /\ messagesSinceMSNChange["B"] # << >>
    /\ \E j \in 1..delivered["B"] :
          ~Handled(log[j]) /\ j > client["B"].currentSeq
    /\ \E i \in 1..delivered["A"] : Handled(log[i])
    /\ lastGC["A"].by = "snapshot"
    /\ lastGC["A"].min > 0
    /\ messagesSinceMSNChange["A"] # << >>
    /\ messagesSinceMSNChange["A"][1].sequenceNumber = lastGC["A"].min + 1
    /\ \E i \in 1..Len(messagesSinceMSNChange["A"]) :
          messagesSinceMSNChange["A"][i].clientId # runtimeClientId["A"]

\* C19: the temporary listener is gone when processMergeTreeMsg is over.
\* Over every processCore call and every replay of the load, whether the
\* message is applied or its application throws, the number of
\* "sequenceDelta" listeners is what it was before, and the client's delta
\* callback is installed only when a listener is left.
C19_TempListenerRemoved ==
    [][\A r \in Replicas :
          (Delivery(r) \/ LoadStep(r)) =>
             /\ deltaListeners'[r] = deltaListeners[r]
             /\ mergeTreeDeltaCallback'[r] => deltaListeners'[r] > 0]_vars

\* C19: the replay of replica B's load has applied a message and has thrown
\* on a later one that needed transformation
C19_Witness ==
    /\ loadFailed["B"]
    /\ pc["B"] = "returned"
    /\ messagesSinceMSNChange["B"] # << >>
    /\ \E j \in 1..delivered["B"] :
          /\ ~Handled(log[j])
          /\ NeedsTransformation(log[j])
          /\ j > client["B"].currentSeq
          /\ \A i \in 1..Len(messagesSinceMSNChange["B"]) :
                messagesSinceMSNChange["B"][i].sequenceNumber < j

\* C20: the contents stored for a message that needed transformation are
\* built from the deltas of that message alone.  Over every processCore
\* call for such a message, the entry appended has the ops of the delta
\* events that applying the message to the client fires, and of no other
\* event of the capture window.
C20_OwnDeltasOnly ==
    [][\A r \in Replicas :
          (Delivery(r) /\ ~Handled(log[delivered'[r]])
             /\ NeedsTransformation(log[delivered'[r]])
             /\ ~Throws(r, log[delivered'[r]])) =>
             LET m == log[delivered'[r]]
                 ops == TransformOps(applyMsg(client[r], m).events, 1)
             IN LastOf(messagesSinceMSNChange'[r]).contents
                   = IF Len(ops) # 1 THEN createGroupOp(ops) ELSE ops[1]]_vars

\* C20: replica A's buffer holds a message of replica B that needed
\* transformation, and its stored contents have the insert of a segment
\* that replica A submitted itself
C20_Witness ==
    \E i \in 1..Len(messagesSinceMSNChange["A"]) :
       LET e == messagesSinceMSNChange["A"][i]
           m == log[e.sequenceNumber]
       IN /\ e.clientId = runtimeClientId["B"]
          /\ NeedsTransformation(m)
          /\ \E j \in 1..Len(MemberOps(e.contents)) : \E k \in 1..Len(log) :
                /\ log[k].clientId = runtimeClientId["A"]
                /\ log[k].contents.type = "insert"
                /\ MemberOps(e.contents)[j].type = "insert"
                /\ MemberOps(e.contents)[j].seg.id = log[k].contents.seg.id

RECURSIVE SumLen(_, _, _)
\* the lengths of the segments of ranges a..b, added up
SumLen(ranges, a, b) ==
    IF a > b THEN 0 ELSE ranges[a].seg.len + SumLen(ranges, a + 1, b)

RECURSIVE Covered(_)
\* the length the ops cover: a segment's length for an insert, the length
\* of the range for a remove or an annotate
Covered(ops) ==
    IF ops = << >> THEN 0
    ELSE (IF Head(ops).type = "insert" THEN Head(ops).seg.len
          ELSE Head(ops).pos2 - Head(ops).pos1) + Covered(Tail(ops))

\* the resulting value of each changed key of range r: the segment's value,
\* null when the segment has none
ResultingProps(r) ==
    [k \in r.deltas |-> IF k \in DOMAIN r.seg.props THEN r.seg.props[k] ELSE Null]

\* the range that starts the op range i - 1 went to, given the ranges that
\* start an op
RunStart(starts, i) == CHOOSE a \in starts : a < i /\ \A b \in starts : b < i => b <= a

\* whether range i goes on with the op of the range before it: an annotate
\* range starts where that op ends and has matching resulting properties, a
\* remove range is at that op's start
Extends(operation, ranges, starts, i) ==
    LET a == RunStart(starts, i)
    IN IF operation = "ANNOTATE"
       THEN /\ ranges[i].position = ranges[a].position + SumLen(ranges, a, i - 1)
            /\ ResultingProps(ranges[i]) = ResultingProps(ranges[a])
       ELSE ranges[i].position = ranges[a].position

\* the op of the run of ranges a..b
RunOp(operation, ranges, a, b) ==
    IF operation = "ANNOTATE"
    THEN createAnnotateRangeOp(ranges[a].position,
                               ranges[a].position + SumLen(ranges, a, b),
                               ResultingProps(ranges[a]))
    ELSE createRemoveRangeOp(ranges[a].position,
                             ranges[a].position + SumLen(ranges, a, b))

\* C21: createOpsFromDelta coalesces and keeps the coverage.  An INSERT
\* event gives one insert op for each range.  For an ANNOTATE and for a
\* REMOVE event the ranges fall into runs, one op each: a range goes on
\* with the op before it exactly when (annotate) it starts where that op
\* ends and has matching resulting properties, or (remove) it is at that
\* op's start; the op spans the lengths of its run, and an annotate op has,
\* for exactly the changed keys, the segment's resulting value, null for a
\* key now undefined.  The ops cover the sum of the segments' lengths.
C21_DeltaOps ==
    delta.built =>
       LET operation == delta.event.deltaOperation
           ranges == delta.event.ranges
           n == Len(ranges)
           ops == delta.ops
       IN /\ Covered(ops) = SumLen(ranges, 1, n)
          /\ operation = "INSERT" =>
                ops = [i \in 1..n |-> createInsertOp(ranges[i].position, ranges[i].seg)]
          /\ operation \in {"ANNOTATE", "REMOVE"} =>
                \E starts \in SUBSET (1..n) :
                   /\ n > 0 => 1 \in starts
                   /\ \A i \in 2..n :
                         i \notin starts <=> Extends(operation, ranges, starts, i)
                   /\ Len(ops) = Cardinality(starts)
                   /\ \A a \in starts :
                         LET j == Cardinality({b \in starts : b <= a})
                             later == {b \in starts : b > a}
                             last == IF later = {} THEN n
                                     ELSE (CHOOSE b \in later : \A c \in later : b <= c) - 1
                         IN ops[j] = RunOp(operation, ranges, a, last)

\* C21: an ANNOTATE event of two ranges has been re-expressed as one op that
\* spans a segment of length 2 and writes null for a key now undefined
C21_Witness ==
    /\ delta.built
    /\ delta.event.deltaOperation = "ANNOTATE"
    /\ Len(delta.event.ranges) = 2
    /\ Len(delta.ops) = 1
    /\ delta.ops[1].pos2 - delta.ops[1].pos1 > 2
    /\ \E k \in DOMAIN delta.ops[1].props : delta.ops[1].props[k] = Null

\* C22: the transformation is copy-on-write.  When processCore has
\* processed a message that needed transformation, the message object that
\* was applied has the contents and the referenceSequenceNumber it came
\* with, and the entry of the History Buffer, a copy, has the replaced
\* contents and the referenceSequenceNumber sequenceNumber - 1.
C22_CopyOnWrite ==
    [][(ProcStep /\ lastProc'.temp) =>
          LET r == lastProc'.replica
              m == log[lastProc'.seq]
              ops == TransformOps(applyMsg(client[r], m).events, 1)
              stored == LastOf(messagesSinceMSNChange'[r])
          IN /\ lastProc'.message.contents = m.contents
             /\ lastProc'.message.referenceSequenceNumber = m.referenceSequenceNumber
             /\ lastProc'.message = m
             /\ stored.referenceSequenceNumber = m.sequenceNumber - 1
             /\ stored.contents = IF Len(ops) = 1 THEN ops[1] ELSE createGroupOp(ops)]_vars

\* C22: a replica has processed a remote message that needed
\* transformation, and the stored copy differs from the message applied in
\* its contents and in its referenceSequenceNumber
C22_Witness ==
    /\ lastProc.temp
    /\ ~lastProc.threw
    /\ lastProc.message.clientId # runtimeClientId[lastProc.replica]
    /\ messagesSinceMSNChange[lastProc.replica] # << >>
    /\ LET stored == LastOf(messagesSinceMSNChange[lastProc.replica])
       IN /\ stored.sequenceNumber = lastProc.seq
          /\ stored.contents # lastProc.message.contents
          /\ stored.referenceSequenceNumber # lastProc.message.referenceSequenceNumber
          /\ lastProc.message = log[lastProc.seq]

\* the entries of a buffer with a sequence number of at most w
UpTo(buf, w) == {i \in 1..Len(buf) : buf[i].sequenceNumber <= w}

\* C23: the staleness of the History Buffer is bounded.  With delivery in
\* order, when processMergeTreeMsg is over for a message whose
\* minimumSequenceNumber is w, the buffer has at most 21 entries with a
\* sequence number of at most w, and none when the pass has run.
C23_BoundedStaleness ==
    [][\A r \in Replicas :
          (Delivery(r) /\ ~Handled(log[delivered'[r]])
             /\ ~Throws(r, log[delivered'[r]])) =>
             LET w == log[delivered'[r]].minimumSequenceNumber
                 stale == UpTo(messagesSinceMSNChange'[r], w)
             IN /\ Cardinality(stale) <= 21
                /\ lastGC'[r] # lastGC[r] => stale = {}]_vars

\* C23: a message has just been appended to a buffer that now has 21
\* entries at or below the message's minimumSequenceNumber, with no pass,
\* and more entries above it
C23_Witness ==
    \E r \in Replicas :
       /\ delivered[r] > LongSession
       /\ lastGC[r].by = "none"
       /\ LastOf(messagesSinceMSNChange[r]).sequenceNumber = delivered[r]
       /\ Cardinality(UpTo(messagesSinceMSNChange[r],
                           log[delivered[r]].minimumSequenceNumber)) = 21
       /\ Len(messagesSinceMSNChange[r]) > 21

\* C24: replaceRange(start, end, segment).  When the insert gives an op,
\* the content is the old content before start, the segment, and the old
\* content from end on, and one message is submitted, a Group of the insert
\* op at end and the remove op of [start, end), both present and
\* well-formed, also when start = end.  When the insert gives no op, the
\* content is unchanged and nothing is submitted.
C24_ReplaceRange ==
    [][(EditStep /\ lastEdit'.kind = "replace") =>
          LET r == lastEdit'.replica
              start == lastEdit'.start
              end == lastEdit'.end
              old == Content(client[r].tree)
              new == Content(client'[r].tree)
          IN IF lastEdit'.returned
             THEN /\ Len(new) = Len(old) - (end - start) + 1
                  /\ SubSeq(new, 1, start) = SubSeq(old, 1, start)
                  /\ new[start + 1].id \notin {old[i].id : i \in 1..Len(old)}
                  /\ SubSeq(new, start + 2, Len(new)) = SubSeq(old, end + 1, Len(old))
                  /\ Len(log') = Len(log) + 1
                  /\ SubSeq(log', 1, Len(log)) = log
                  /\ LET ops == log'[Len(log')].contents
                     IN /\ ops.type = "group"
                        /\ Len(ops.ops) = 2
                        /\ ops.ops[1] = createInsertOp(end, SegSpec(new[start + 1].id, 1,
                                                                    NoProps))
                        /\ ops.ops[2] = createRemoveRangeOp(start, end)
             ELSE /\ new = old
                  /\ log' = log]_vars

\* C24: replaceRange has been called with start = end on a sequence with
\* content, the segment is in, and the Group submitted has undefined as
\* its second member
C24_Witness ==
    /\ lastEdit.kind = "replace"
    /\ lastEdit.empty
    /\ lastEdit.returned
    /\ log # << >>
    /\ LastOf(log).contents.type = "group"
    /\ Len(LastOf(log).contents.ops) = 2
    /\ LastOf(log).contents.ops[1].type = "insert"
    /\ LastOf(log).contents.ops[2] = UndefinedOp
    /\ Len(Content(client[lastEdit.replica].tree)) > 2

\* a snapshot call has been recorded in this step
SnapStep == lastSnap' # lastSnap

=========================================================================
